---- MODULE Spec2Model ----
(***************************************************************************)
(* A model of yu_tool's export pipeline (export.go and the earlier         *)
(* versions of it kept beside it): the archive extractor, the schema       *)
(* resolver, the dictionary parsers, the deterministic writer and the      *)
(* config-version arithmetic of the template renderer.                     *)
(*                                                                         *)
(* A Go string is a sequence of characters, each character a one-element   *)
(* TLA+ string.  Go's len() counts UTF-8 bytes and Go's < on strings       *)
(* compares bytes, so every character carries its code point (CodePoint)   *)
(* and its encoded width (Utf8Len).  A character outside ASCII is written  *)
(* by its code point in hexadecimal, "<65e5>" for U+65E5.                  *)
(***************************************************************************)
EXTENDS Integers, Sequences, FiniteSets, TLC

VARIABLES zip, ver, wr, par, gen, run

vars == <<zip, ver, wr, par, gen, run>>

\* The value of a component that a specification does not exercise.
Idle == [pc |-> "idle"]

----------------------------------------------------------------------------
(* Strings *)

\* Unicode code points of the characters the model uses.
CodePoint(c) ==
    CASE c = "\t" -> 9
      [] c = " " -> 32
      [] c = "#" -> 35
      [] c = "+" -> 43
      [] c = "," -> 44
      [] c = "-" -> 45
      [] c = "." -> 46
      [] c = "/" -> 47
      [] c = "0" -> 48
      [] c = "1" -> 49
      [] c = "2" -> 50
      [] c = "3" -> 51
      [] c = "4" -> 52
      [] c = "5" -> 53
      [] c = "6" -> 54
      [] c = "7" -> 55
      [] c = "8" -> 56
      [] c = "9" -> 57
      [] c = ":" -> 58
      [] c = "A" -> 65
      [] c = "B" -> 66
      [] c = "C" -> 67
      [] c = "Z" -> 90
      [] c = "_" -> 95
      [] c = "a" -> 97
      [] c = "b" -> 98
      [] c = "c" -> 99
      [] c = "d" -> 100
      [] c = "e" -> 101
      [] c = "h" -> 104
      [] c = "i" -> 105
      [] c = "k" -> 107
      [] c = "l" -> 108
      [] c = "m" -> 109
      [] c = "n" -> 110
      [] c = "o" -> 111
      [] c = "s" -> 115
      [] c = "t" -> 116
      [] c = "x" -> 120
      [] c = "y" -> 121
      [] c = "z" -> 122
      [] c = "<cont>" -> 128
      [] c = "<e9>" -> 233
      [] c = "<4f60>" -> 20320
      [] c = "<571f>" -> 22303
      [] c = "<597d>" -> 22909
      [] c = "<65e5>" -> 26085

\* Bytes of the character's UTF-8 encoding.  "<cont>" is what is left of a
\* character cut in the middle: one byte that is no character.
Utf8Len(c) ==
    IF CodePoint(c) < 128 \/ c = "<cont>" THEN 1
    ELSE IF CodePoint(c) < 2048 THEN 2
    ELSE IF CodePoint(c) < 65536 THEN 3 ELSE 4

\* Go's len(s): the number of bytes.
RECURSIVE ByteLen(_)
ByteLen(s) == IF s = <<>> THEN 0 ELSE Utf8Len(Head(s)) + ByteLen(Tail(s))

\* len([]rune(s)): the number of characters.
RuneLen(s) == Len(s)

\* Go's s < t: byte-wise, which for UTF-8 is code point by code point.
RECURSIVE StrLess(_, _)
StrLess(s, t) ==
    IF t = <<>> THEN FALSE
    ELSE IF s = <<>> THEN TRUE
    ELSE IF Head(s) # Head(t) THEN CodePoint(Head(s)) < CodePoint(Head(t))
    ELSE StrLess(Tail(s), Tail(t))

\* strings.HasPrefix
HasPrefix(s, p) == Len(p) <= Len(s) /\ SubSeq(s, 1, Len(p)) = p

\* strings.HasSuffix
HasSuffix(s, p) ==
    Len(p) <= Len(s) /\ SubSeq(s, Len(s) - Len(p) + 1, Len(s)) = p

\* strings.ToLower, on the upper-case letters the model uses.
ToLower(s) ==
    [i \in 1..Len(s) |->
        CASE s[i] = "A" -> "a"
          [] s[i] = "B" -> "b"
          [] s[i] = "I" -> "i"
          [] s[i] = "P" -> "p"
          [] s[i] = "Z" -> "z"
          [] OTHER -> s[i]]

\* strings.Split(s, sep) for a one-character separator.
RECURSIVE Split(_, _)
Split(s, sep) ==
    IF s = <<>> THEN << <<>> >>
    ELSE LET r == Split(Tail(s), sep)
         IN  IF Head(s) = sep THEN << <<>> >> \o r
             ELSE << <<Head(s)>> \o Head(r) >> \o Tail(r)

\* strings.Join(parts, sep)
RECURSIVE JoinWith(_, _)
JoinWith(parts, sep) ==
    IF parts = <<>> THEN <<>>
    ELSE IF Len(parts) = 1 THEN parts[1]
    ELSE parts[1] \o <<sep>> \o JoinWith(Tail(parts), sep)

\* The elements of a sequence of strings that are not empty, in order.
RECURSIVE NonEmpty(_)
NonEmpty(parts) ==
    IF parts = <<>> THEN <<>>
    ELSE IF Head(parts) = <<>> THEN NonEmpty(Tail(parts))
    ELSE <<Head(parts)>> \o NonEmpty(Tail(parts))

Range(f) == {f[i] : i \in DOMAIN f}

\* All sequences over S of length at most n.
SeqsUpTo(S, n) == UNION {[1..k -> S] : k \in 0..n}

----------------------------------------------------------------------------
(* Archive extractor: extractZipToDir / extractFile *)

MaxEntries == 2

DOT == <<".">>
DOTDOT == <<".", ".">>

\* filepath.Clean of a rooted path: empty and "." elements are dropped, ".."
\* removes the element before it and is itself dropped at the root.
RECURSIVE CleanElems(_, _)
CleanElems(elems, out) ==
    IF elems = <<>> THEN out
    ELSE LET e == Head(elems)
         IN  IF e = <<>> \/ e = DOT THEN CleanElems(Tail(elems), out)
             ELSE IF e = DOTDOT
                  THEN CleanElems(Tail(elems),
                                  IF out = <<>> THEN out
                                  ELSE SubSeq(out, 1, Len(out) - 1))
             ELSE CleanElems(Tail(elems), Append(out, e))

Clean(path) == <<"/">> \o JoinWith(CleanElems(Split(path, "/"), <<>>), "/")

\* filepath.Join(dir, name): empty elements are ignored, the rest joined by
\* the separator and cleaned.
Join(dir, name) ==
    IF name = <<>> THEN Clean(dir) ELSE Clean(dir \o <<"/">> \o name)

\* filepath.Dir of a cleaned rooted path.
Dir(path) ==
    LET es == CleanElems(Split(path, "/"), <<>>)
    IN  IF es = <<>> THEN <<"/">>
        ELSE <<"/">> \o JoinWith(SubSeq(es, 1, Len(es) - 1), "/")

\* The scratch directory os.MkdirTemp returned.
destDir == <<"/", "t">>

\* Entry names an archive of the model may hold.
EntryNames ==
    { <<"a">>,
      <<"a", "/", "e">>,
      <<"e">>,
      <<"a", "/", ".", ".", "/", "e">>,
      <<"/", "e">>,
      <<".", ".", "/", ".", ".", "/", "e">>,
      <<".", ".", "/", "t", "a", "/", "e">>,
      <<".", ".", "/", "t">>,
      <<".">>,
      <<"a", "/", ".", ".", "/", ".", ".">> }

ZipEntries == [name : EntryNames, isDir : BOOLEAN]

\* The path and all its ancestors, the root included.
Ancestors(path) ==
    LET es == CleanElems(Split(path, "/"), <<>>)
    IN  { <<"/">> \o JoinWith(SubSeq(es, 1, k), "/") : k \in 0..Len(es) }

\* The Zip Slip test of extractFile: the joined path must start with the
\* cleaned destination followed by a separator.
ZipSlipPrefixNoSep(filePath) == HasPrefix(filePath, Clean(destDir))

ZipSlipOk(filePath) == HasPrefix(filePath, Clean(destDir) \o <<"/">>)

\* os.MkdirAll(path): fails when the path or an ancestor is a file;
\* otherwise every missing directory on the way is created.
MkdirAllFails(z, path) == Ancestors(path) \cap z.files # {}

MkdirAllNew(z, path) == Ancestors(path) \ z.dirs

\* One iteration of the loop of extractZipToDir: extractFile on the next
\* entry.  "made" logs every directory created and every file written, with
\* the index of the entry that caused it.
ExtractFile ==
    /\ zip.pc = "extract"
    /\ zip.pos < Len(zip.archive)
    /\ LET i == zip.pos + 1
           file == zip.archive[i]
           filePath == Join(destDir, file.name)
           fail == [zip EXCEPT !.pos = i, !.pc = "error"]
       IN  IF ~ZipSlipOk(filePath) THEN zip' = fail
           ELSE IF file.isDir
           THEN IF MkdirAllFails(zip, filePath) THEN zip' = fail
                ELSE zip' = [zip EXCEPT
                        !.pos = i,
                        !.dirs = @ \cup MkdirAllNew(zip, filePath),
                        !.made = @ \cup {[idx |-> i, path |-> p] :
                                           p \in MkdirAllNew(zip, filePath)}]
           ELSE IF MkdirAllFails(zip, Dir(filePath)) THEN zip' = fail
           ELSE LET newDirs == MkdirAllNew(zip, Dir(filePath))
                    madeDirs == {[idx |-> i, path |-> p] : p \in newDirs}
                IN  IF filePath \in zip.dirs \cup newDirs
                    THEN \* os.OpenFile on a directory fails
                         zip' = [fail EXCEPT !.dirs = @ \cup newDirs,
                                             !.made = @ \cup madeDirs]
                    ELSE zip' = [zip EXCEPT
                            !.pos = i,
                            !.dirs = @ \cup newDirs,
                            !.files = @ \cup {filePath},
                            !.made = @ \cup madeDirs
                                       \cup {[idx |-> i, path |-> filePath]}]
    /\ UNCHANGED <<ver, wr, par, gen, run>>

\* The loop of extractZipToDir ran out of entries: return nil.
ExtractDone ==
    /\ zip.pc = "extract"
    /\ zip.pos = Len(zip.archive)
    /\ zip' = [zip EXCEPT !.pc = "done"]
    /\ UNCHANGED <<ver, wr, par, gen, run>>

InitZip ==
    /\ zip \in {[pc |-> "extract", archive |-> a, pos |-> 0,
                 dirs |-> Ancestors(destDir), files |-> {}, made |-> {}] :
                    a \in SeqsUpTo(ZipEntries, MaxEntries)}
    /\ ver = Idle
    /\ wr = Idle
    /\ par = Idle
    /\ gen = Idle
    /\ run = Idle

NextZip == ExtractFile \/ ExtractDone

SpecZip == InitZip /\ [][NextZip]_vars

\* The elements of a path, resolved one by one from the root.
PathElems(path) == NonEmpty(Split(path, "/"))

\* The path lies strictly inside the destination: the destination's elements
\* are a proper prefix of its own, and none of them climbs.
StrictlyInside(path) ==
    LET d == PathElems(destDir)
        p == PathElems(path)
    IN  /\ Len(p) > Len(d)
        /\ SubSeq(p, 1, Len(d)) = d
        /\ \A k \in 1..Len(p) : p[k] # DOTDOT /\ p[k] # DOT

\* Where an entry name leads, element by element from the destination.
RECURSIVE Walk(_, _)
Walk(at, elems) ==
    IF elems = <<>> THEN at
    ELSE LET e == Head(elems)
         IN  IF e = DOT THEN Walk(at, Tail(elems))
             ELSE IF e = DOTDOT
                  THEN Walk(IF at = <<>> THEN at
                            ELSE SubSeq(at, 1, Len(at) - 1), Tail(elems))
             ELSE Walk(Append(at, e), Tail(elems))

\* The entry leaves the destination or names the destination itself.
Escapes(name) ==
    LET d == PathElems(destDir)
        p == Walk(d, PathElems(name))
    IN  ~(Len(p) > Len(d) /\ SubSeq(p, 1, Len(d)) = d)

\* Index of the first escaping entry of the archive, 0 when there is none.
FirstEscape(a) ==
    IF \E i \in 1..Len(a) : Escapes(a[i].name)
    THEN CHOOSE i \in 1..Len(a) :
            /\ Escapes(a[i].name)
            /\ \A j \in 1..(i - 1) : ~Escapes(a[j].name)
    ELSE 0

\* C1: extraction never creates or writes anything that is not strictly
\* inside destDir; the first entry that leaves destDir (or names destDir
\* itself) ends the extraction with an error, nothing is written for it and
\* no later entry is extracted.
C1_NoPathTraversal ==
    /\ \A m \in zip.made : StrictlyInside(m.path)
    /\ LET k == FirstEscape(zip.archive)
       IN  k > 0 =>
             /\ zip.pos <= k
             /\ \A m \in zip.made : m.idx < k
             /\ zip.pos = k => zip.pc = "error"
             /\ zip.pc # "done"

\* An archive whose second entry is ../../e was stopped at it, after its
\* first entry had been written.
C1_Witness ==
    /\ zip.pc = "error"
    /\ zip.pos = 2
    /\ zip.archive[2].name = <<".", ".", "/", ".", ".", "/", "e">>
    /\ zip.made # {}

----------------------------------------------------------------------------
(* Config version: updateConfigVersion *)

MaxSeqLen == 2

Digits == {"0", "1", "2", "3", "4", "5", "6", "7", "8", "9"}

DigitVal(c) == CodePoint(c) - CodePoint("0")

DigitChar(n) == CHOOSE c \in Digits : DigitVal(c) = n

\* The %d of fmt.Sprintf for a number the model holds as an integer.
RECURSIVE FmtNat(_)
FmtNat(n) ==
    IF n < 10 THEN <<DigitChar(n)>>
    ELSE FmtNat(n \div 10) \o <<DigitChar(n % 10)>>

\* The sequence counter is an int of 64 bits.  Its value is held as a sign
\* and a magnitude in decimal digits without leading zeros, so that the
\* whole range is there.
MaxInt64 ==
    <<"9", "2", "2", "3", "3", "7", "2", "0", "3", "6",
      "8", "5", "4", "7", "7", "5", "8", "0", "7">>

MinInt64Mag ==
    <<"9", "2", "2", "3", "3", "7", "2", "0", "3", "6",
      "8", "5", "4", "7", "7", "5", "8", "0", "8">>

IntOf(neg, mag) == [neg |-> neg, mag |-> mag]

Zero == IntOf(FALSE, <<"0">>)
One == IntOf(FALSE, <<"1">>)

RECURSIVE StripZeros(_)
StripZeros(ds) ==
    IF Len(ds) > 1 /\ Head(ds) = "0" THEN StripZeros(Tail(ds)) ELSE ds

\* Magnitudes compared as numbers.
MagLess(a, b) == Len(a) < Len(b) \/ (Len(a) = Len(b) /\ StrLess(a, b))

\* Magnitude plus one.
RECURSIVE MagInc(_)
MagInc(ds) ==
    IF ds = <<>> THEN <<"1">>
    ELSE LET last == ds[Len(ds)]
             init == SubSeq(ds, 1, Len(ds) - 1)
         IN  IF last = "9" THEN MagInc(init) \o <<"0">>
             ELSE init \o <<DigitChar(DigitVal(last) + 1)>>

\* Magnitude minus one, for a magnitude of at least one.
RECURSIVE MagDec(_)
MagDec(ds) ==
    LET last == ds[Len(ds)]
        init == SubSeq(ds, 1, Len(ds) - 1)
    IN  IF last = "0" THEN MagDec(init) \o <<"9">>
        ELSE StripZeros(init \o <<DigitChar(DigitVal(last) - 1)>>)

\* seq++ on an int: the largest value wraps to the smallest.
SeqInc(v) ==
    IF v.neg
    THEN IF v.mag = <<"1">> THEN Zero ELSE IntOf(TRUE, MagDec(v.mag))
    ELSE IF v.mag = MaxInt64 THEN IntOf(TRUE, MinInt64Mag)
    ELSE IntOf(FALSE, MagInc(v.mag))

\* The %d of fmt.Sprintf for the counter.
FmtInt(v) == IF v.neg THEN <<"-">> \o v.mag ELSE v.mag

\* The longest prefix of s made of characters of S.
RECURSIVE TakeWhile(_, _)
TakeWhile(s, S) ==
    IF s = <<>> \/ Head(s) \notin S THEN <<>>
    ELSE <<Head(s)>> \o TakeWhile(Tail(s), S)

DropN(s, n) == SubSeq(s, n + 1, Len(s))

\* fmt.Sscanf(s, "%d", &seq): leading spaces are skipped, a sign is accepted,
\* then the longest run of decimal digits is read and whatever follows is
\* left unread.  No digit, or a number outside int64, is an error.
Sscanf(s) ==
    LET s1 == DropN(s, Len(TakeWhile(s, {" ", "\t"})))
        hasSign == s1 # <<>> /\ Head(s1) \in {"+", "-"}
        neg == hasSign /\ Head(s1) = "-"
        s2 == IF hasSign THEN Tail(s1) ELSE s1
        ds == TakeWhile(s2, Digits)
        mag == StripZeros(ds)
    IN  IF ds = <<>> THEN [err |-> TRUE, val |-> Zero]
        ELSE IF neg /\ MagLess(MinInt64Mag, mag) THEN [err |-> TRUE, val |-> Zero]
        ELSE IF ~neg /\ MagLess(MaxInt64, mag) THEN [err |-> TRUE, val |-> Zero]
        ELSE [err |-> FALSE,
              val |-> IF mag = <<"0">> THEN Zero ELSE IntOf(neg, mag)]

\* The calendar days of the model, in order.
Days ==
    << [year |-> 2026, month |-> 1, day |-> 29],
       [year |-> 2026, month |-> 1, day |-> 30],
       [year |-> 2026, month |-> 12, day |-> 9] >>

\* fmt.Sprintf("%d.%d.%d", now.Year(), int(now.Month()), now.Day())
FmtDate(now) ==
    FmtNat(now.year) \o <<".">> \o FmtNat(now.month) \o <<".">> \o FmtNat(now.day)

\* updateConfigVersion(current) on the day "now".
updateConfigVersion(current, now) ==
    LET parts == Split(current, "-")
        datePart == IF Len(parts) >= 2 THEN parts[1] ELSE current
        scanned == IF Len(parts) >= 2 THEN Sscanf(parts[2])
                   ELSE [err |-> FALSE, val |-> Zero]
        seq == IF scanned.err THEN Zero ELSE scanned.val
        currentDate == FmtDate(now)
    IN  currentDate \o <<"-">> \o
            FmtInt(IF datePart = currentDate THEN SeqInc(seq) ELSE One)

\* The date parts and the sequence texts of the tokens the model tries.
DateParts ==
    {FmtDate(Days[i]) : i \in DOMAIN Days}
        \cup { <<>>, <<"2", "0", "2", "6", ".", "0", "1", ".", "2", "9">> }

SeqChars == {"0", "3", "9", "x", "+", "-"}

SeqTexts ==
    SeqsUpTo(SeqChars, MaxSeqLen)
        \cup { MaxInt64, MinInt64Mag, MagDec(MaxInt64), MaxInt64 \o <<"9">> }

Tokens ==
    DateParts \cup {d \o <<"-">> \o t : d \in DateParts, t \in SeqTexts}

\* One call of updateConfigVersion.
UpdateConfigVersion ==
    /\ ver.pc = "call"
    /\ ver' = [ver EXCEPT !.pc = "done",
                          !.out = updateConfigVersion(ver.current, ver.now)]
    /\ UNCHANGED <<zip, wr, par, gen, run>>

InitVersion ==
    /\ ver \in {[pc |-> "call", current |-> c, now |-> Days[i], out |-> <<>>] :
                    c \in Tokens, i \in DOMAIN Days}
    /\ zip = Idle
    /\ wr = Idle
    /\ par = Idle
    /\ gen = Idle
    /\ run = Idle

NextVersion == UpdateConfigVersion

SpecVersion == InitVersion /\ [][NextVersion]_vars

\* The claim's reading of a token: the text before the first "-" is the
\* date, the text after it the sequence, which counts when it is a number
\* (decimal digits, a "+" before them allowed) and as 0 when it is missing
\* or not a number.
IndexOf(s, c) ==
    IF c \in Range(s) THEN CHOOSE i \in 1..Len(s) :
                              s[i] = c /\ \A j \in 1..(i - 1) : s[j] # c
    ELSE 0

DateOfToken(tok) ==
    IF IndexOf(tok, "-") = 0 THEN tok ELSE SubSeq(tok, 1, IndexOf(tok, "-") - 1)

SeqTextOfToken(tok) ==
    IF IndexOf(tok, "-") = 0 THEN <<>> ELSE DropN(tok, IndexOf(tok, "-"))

Unsigned(t) == IF t # <<>> /\ Head(t) = "+" THEN Tail(t) ELSE t

IsNumber(t) ==
    Unsigned(t) # <<>> /\ \A i \in 1..Len(Unsigned(t)) : Unsigned(t)[i] \in Digits

SeqOfToken(tok) ==
    IF IsNumber(SeqTextOfToken(tok))
    THEN StripZeros(Unsigned(SeqTextOfToken(tok)))
    ELSE <<"0">>

\* C2: the result is D-(N+1) when the text before the first "-" is today's
\* date D, N being the numeric sequence after the "-" (0 when it is missing
\* or not numeric), and D-1 otherwise.
C2_BumpAsClaimed ==
    ver.pc = "done" =>
        ver.out = FmtDate(ver.now) \o <<"-">> \o
                    (IF DateOfToken(ver.current) = FmtDate(ver.now)
                     THEN MagInc(SeqOfToken(ver.current))
                     ELSE <<"1">>)

\* C29: the result of updateConfigVersion is today's date, a "-" and an
\* integer N >= 1 in decimal: digits only, the first not 0, and no sign.
C29_SequenceAtLeastOne ==
    ver.pc = "done" =>
        LET pre == FmtDate(ver.now) \o <<"-">>
            n == DropN(ver.out, Len(pre))
        IN  /\ HasPrefix(ver.out, pre)
            /\ n # <<>>
            /\ \A i \in 1..Len(n) : n[i] \in Digits
            /\ Head(n) # "0"

----------------------------------------------------------------------------
(* Template renderer: the config version of exportTemplateFromFile and the
   in-place patch of updateTemplateConfigVersion *)

MaxRenders == 3

DQ == "\""
SQ == "'"

\* The text of a template file is a sequence of characters; the fourteen
\* letters of the key are held as the one element KEY.
KEY == "config_version"

Quotes == {DQ, SQ}
Spaces == {" ", "\t"}

\* The regular expression config_version\s*:\s*["'][^"']*["'] tried at
\* position i: the index of the last character of the match, 0 for no match.
MatchEnd(text, i) ==
    IF i > Len(text) \/ text[i] # KEY THEN 0
    ELSE LET a == i + 1 + Len(TakeWhile(DropN(text, i), Spaces))
         IN  IF a > Len(text) \/ text[a] # ":" THEN 0
             ELSE LET b == a + 1 + Len(TakeWhile(DropN(text, a), Spaces))
                  IN  IF b > Len(text) \/ text[b] \notin Quotes THEN 0
                      ELSE LET rest == DropN(text, b)
                               c == IF \E k \in 1..Len(rest) : rest[k] \in Quotes
                                    THEN CHOOSE k \in 1..Len(rest) :
                                           /\ rest[k] \in Quotes
                                           /\ \A j \in 1..(k - 1) :
                                                 rest[j] \notin Quotes
                                    ELSE 0
                           IN  IF c = 0 THEN 0 ELSE b + c

\* regexp.ReplaceAllString from position i on: every match, left to right,
\* becomes the replacement and the text between matches is kept.
RECURSIVE ReplaceAllFrom(_, _, _)
ReplaceAllFrom(text, i, repl) ==
    IF i > Len(text) THEN <<>>
    ELSE IF MatchEnd(text, i) > 0
         THEN repl \o ReplaceAllFrom(text, MatchEnd(text, i) + 1, repl)
    ELSE <<text[i]>> \o ReplaceAllFrom(text, i + 1, repl)

\* updateTemplateConfigVersion: the new content of the template file.
updateTemplateConfigVersion(content, newVersion) ==
    ReplaceAllFrom(content, 1,
                   <<KEY, ":", " ", DQ>> \o newVersion \o <<DQ>>)

\* The config_version field gkconfig decodes from a JSON5 text: the key,
\* bare or quoted, a colon, and a string closed by the quote that opened it.
\* A text without the key decodes to the empty string.
ParseConfigVersion(text) ==
    LET i == IndexOf(text, KEY)
    IN  IF i = 0 THEN <<>>
        ELSE LET after == DropN(text, i)
                 colon == IndexOf(after, ":")
                 tail == DropN(after, colon)
                 v == DropN(tail, Len(TakeWhile(tail, Spaces)))
             IN  IF colon = 0 \/ v = <<>> \/ Head(v) \notin Quotes THEN <<>>
                 ELSE SubSeq(v, 2, IndexOf(Tail(v), Head(v)))

\* A template file: the key bare or quoted, optional blanks around the
\* colon, the value in double or single quotes.
TemplateText(keyq, ws1, ws2, valq, value) ==
    <<"{">> \o keyq \o <<KEY>> \o keyq \o ws1 \o <<":">> \o ws2
        \o <<valq>> \o value \o <<valq>> \o <<"}">>

StoredTokens ==
    { <<>>,
      FmtDate(Days[1]) \o <<"-", "3">>,
      FmtDate(Days[1]) \o <<"-", "9">>,
      FmtDate(Days[2]) \o <<"-", "1">>,
      <<"2", "0", "2", "6", ".", "0", "1", ".", "2", "9", "-", "3">> }

TemplateTexts ==
    {TemplateText(keyq, ws1, ws2, valq, value) :
        keyq \in {<<>>, <<DQ>>},
        ws1 \in {<<>>, <<" ">>},
        ws2 \in {<<>>, <<" ">>},
        valq \in Quotes,
        value \in StoredTokens}

\* exportTemplateFromFile on one template: decode it, compute the new config
\* version, patch the template file when --update is set, and write the
\* document with the new version.  A renderer that patches the
\* template file whether or not --update is set:
ExportTemplateFromFilePatchAlways ==
    /\ ver.pc = "render"
    /\ ver.renders < MaxRenders
    /\ LET newVersion ==
               updateConfigVersion(ParseConfigVersion(ver.file), Days[ver.day])
       IN  ver' = [ver EXCEPT
                     !.renders = @ + 1,
                     !.before = ver.file,
                     !.renderDay = ver.day,
                     !.out = newVersion,
                     !.file = updateTemplateConfigVersion(ver.file, newVersion)]
    /\ UNCHANGED <<zip, wr, par, gen, run>>

ExportTemplateFromFile ==
    /\ ver.pc = "render"
    /\ ver.renders < MaxRenders
    /\ LET newVersion ==
               updateConfigVersion(ParseConfigVersion(ver.file), Days[ver.day])
       IN  ver' = [ver EXCEPT
                     !.renders = @ + 1,
                     !.before = ver.file,
                     !.renderDay = ver.day,
                     !.out = newVersion,
                     !.file = IF ver.update
                              THEN updateTemplateConfigVersion(ver.file, newVersion)
                              ELSE ver.file]
    /\ UNCHANGED <<zip, wr, par, gen, run>>

\* Midnight passes between two runs of the tool.
NextDay ==
    /\ ver.pc = "render"
    /\ ver.day < Len(Days)
    /\ ver' = [ver EXCEPT !.day = @ + 1]
    /\ UNCHANGED <<zip, wr, par, gen, run>>

InitRender ==
    /\ ver \in {[pc |-> "render", file |-> f, update |-> u, day |-> 1,
                 renders |-> 0, before |-> f, renderDay |-> 1, out |-> <<>>] :
                    f \in TemplateTexts, u \in BOOLEAN}
    /\ zip = Idle
    /\ wr = Idle
    /\ par = Idle
    /\ gen = Idle
    /\ run = Idle

NextRender == ExportTemplateFromFile \/ NextDay

SpecRender == InitRender /\ [][NextRender]_vars

\* C3: with update-in-place requested, the token stored in the template
\* source after a render is <today>-N, N being the N stored before plus 1
\* when the date stored before is today, and 1 otherwise.
C3_StoredTokenAdvances ==
    (ver.pc = "render" /\ ver.update /\ ver.renders > 0) =>
        LET today == FmtDate(Days[ver.renderDay])
            stored == ParseConfigVersion(ver.before)
        IN  ParseConfigVersion(ver.file) =
                today \o <<"-">> \o
                    (IF DateOfToken(stored) = today
                     THEN MagInc(SeqOfToken(stored))
                     ELSE <<"1">>)

\* The same for a template that writes the key bare: there the patch finds
\* the key and the stored token advances.
C3_BareKeyAdvances ==
    (ver.pc = "render" /\ ver.update /\ ver.renders > 0 /\ ver.file[2] = KEY) =>
        LET today == FmtDate(Days[ver.renderDay])
            stored == ParseConfigVersion(ver.before)
        IN  ParseConfigVersion(ver.file) =
                today \o <<"-">> \o
                    (IF DateOfToken(stored) = today
                     THEN MagInc(SeqOfToken(stored))
                     ELSE <<"1">>)

\* The place of the quote that opens the config_version value of a template.
OpeningQuote(text) ==
    LET i == IndexOf(text, KEY)
        after == DropN(text, i)
        colon == IndexOf(after, ":")
    IN  i + colon + Len(TakeWhile(DropN(after, colon), Spaces)) + 1

\* The text with the characters between the quotes of its config_version
\* value replaced by value, and nothing else touched.
WithValue(text, value) ==
    LET open == OpeningQuote(text)
        rest == DropN(text, open)
        close == open + IndexOf(rest, text[open])
    IN  SubSeq(text, 1, open) \o value \o SubSeq(text, close, Len(text))

\* C19: with update-in-place requested, the template file after a render is
\* the file before it with only the characters between the quotes of the
\* config_version value changed: the blanks around the colon and the kind of
\* quote are as they were.
C19_OnlyValueChanges ==
    (ver.pc = "render" /\ ver.update /\ ver.renders > 0) =>
        ver.file = WithValue(ver.before, ParseConfigVersion(ver.file))

\* The same for a template that writes 'config_version: "..."' exactly as
\* the patch writes it.
OnlyValueChangesInCanonicalForm ==
    (ver.pc = "render" /\ ver.update /\ ver.renders > 0
        /\ SubSeq(ver.before, 2, 5) = <<KEY, ":", " ", DQ>>) =>
        ver.file = WithValue(ver.before, ParseConfigVersion(ver.file))

\* C28: a render without --update leaves the template file as it was, and
\* gives the token the render before it gave when both are on the same day.
C28_NoUpdateNoChange ==
    [][(ver.pc = "render" /\ ~ver.update /\ ver'.renders = ver.renders + 1) =>
          /\ ver'.file = ver.file
          /\ (ver.renders > 0 /\ ver.renderDay = ver'.renderDay) =>
                ver'.out = ver.out]_vars

\* Three renders without --update of a template that stores today's date
\* with sequence 3: the file is as it was and the token is <today>-4.
C28_Witness ==
    /\ ver.pc = "render"
    /\ ~ver.update
    /\ ver.renders = 3
    /\ ver.renderDay = 1
    /\ ParseConfigVersion(ver.file) = FmtDate(Days[1]) \o <<"-", "3">>
    /\ ver.out = FmtDate(Days[1]) \o <<"-", "4">>

----------------------------------------------------------------------------
(* Deterministic writer: sortByCode, writeCodeWordPairs, exportRoot *)

MaxList == 3

\* DictEntry{code, word}
DictEntry(code, word) == [code |-> code, word |-> word]

\* The less function of sortByCode: shorter codes first, then byte order.
LessByteOrderOnly(a, b) == StrLess(a.code, b.code)

Less(a, b) ==
    IF ByteLen(a.code) # ByteLen(b.code)
    THEN ByteLen(a.code) < ByteLen(b.code)
    ELSE StrLess(a.code, b.code)

\* sort.SliceStable: an element goes behind every element that is not
\* greater than it, so equal elements keep their order.
RECURSIVE InsertStable(_, _)
InsertStable(sorted, e) ==
    IF sorted = <<>> THEN <<e>>
    ELSE IF Less(e, Head(sorted)) THEN <<e>> \o sorted
    ELSE <<Head(sorted)>> \o InsertStable(Tail(sorted), e)

RECURSIVE SortFrom(_, _)
SortFrom(entries, sorted) ==
    IF entries = <<>> THEN sorted
    ELSE SortFrom(Tail(entries), InsertStable(sorted, Head(entries)))

sortByCode(entries) == SortFrom(entries, <<>>)

\* The loop of writeCodeWordPairs: an entry whose code was seen is skipped.
RECURSIVE KeepLastOfCode(_)
KeepLastOfCode(entries) ==
    IF entries = <<>> THEN <<>>
    ELSE IF \E i \in 2..Len(entries) : entries[i].code = Head(entries).code
         THEN KeepLastOfCode(Tail(entries))
    ELSE <<Head(entries)>> \o KeepLastOfCode(Tail(entries))

RECURSIVE SkipSeenFrom(_, _)
SkipSeenFrom(entries, seenCodes) ==
    IF entries = <<>> THEN <<>>
    ELSE IF Head(entries).code \in seenCodes
         THEN SkipSeenFrom(Tail(entries), seenCodes)
    ELSE <<Head(entries)>>
            \o SkipSeenFrom(Tail(entries), seenCodes \cup {Head(entries).code})

SkipSeenCodes(entries) == SkipSeenFrom(entries, {})

\* entry[0] + "\t" + entry[1] + "\n", the line without its newline.
CodeWordLine(e) == e.code \o <<"\t">> \o e.word

\* entry[1] + "\t" + entry[0] + "\n" of roots.txt.
RootLine(e) == e.word \o <<"\t">> \o e.code

CodeWordLines(entries) ==
    [i \in 1..Len(entries) |-> CodeWordLine(entries[i])]

RootLinesOf(entries) == [i \in 1..Len(entries) |-> RootLine(entries[i])]

WriterCodes == { <<"b">>, <<"Z">>, <<"a", "b">>, <<"<65e5>">> }

WriterWords == { <<"<571f>">>, <<"<597d>", "<597d>">> }

WriterEntries == {DictEntry(c, w) : c \in WriterCodes, w \in WriterWords}

\* writeCodeWordPairs(path, entries): the slice is sorted in place and one
\* line is written for every entry whose code was not written before.  The
\* function is the same whether or not the unique option was given.
WriteCodeWordPairs ==
    /\ wr.pc = "start"
    /\ wr' = [wr EXCEPT
                !.pc = "pairs",
                !.sorted = sortByCode(wr.entries),
                !.out = CodeWordLines(SkipSeenCodes(sortByCode(wr.entries)))]
    /\ UNCHANGED <<zip, ver, par, gen, run>>

\* The writing half of exportRoot: sort, then one line for every entry.
ExportRootWrite ==
    /\ wr.pc = "start"
    /\ wr' = [wr EXCEPT
                !.pc = "roots",
                !.sorted = sortByCode(wr.entries),
                !.out = RootLinesOf(sortByCode(wr.entries))]
    /\ UNCHANGED <<zip, ver, par, gen, run>>

InitWriter ==
    /\ wr \in {[pc |-> "start", unique |-> u, entries |-> es,
                sorted |-> <<>>, out |-> <<>>] :
                    u \in BOOLEAN, es \in SeqsUpTo(WriterEntries, MaxList)}
    /\ zip = Idle
    /\ ver = Idle
    /\ par = Idle
    /\ gen = Idle
    /\ run = Idle

NextWriter == WriteCodeWordPairs \/ ExportRootWrite

SpecWriter == InitWriter /\ [][NextWriter]_vars

\* The permutations of 1..n.
Perms(n) == {p \in [1..n -> 1..n] : \A i, j \in 1..n : p[i] = p[j] => i = j}

\* a is b with some elements left out.
RECURSIVE IsSubseq(_, _)
IsSubseq(a, b) ==
    IF a = <<>> THEN TRUE
    ELSE IF b = <<>> THEN FALSE
    ELSE IF Head(a) = Head(b) THEN IsSubseq(Tail(a), Tail(b))
    ELSE IsSubseq(a, Tail(b))

\* c comes before d: shorter (in bytes, Go's len) first, then byte order.
CodeBefore(c, d) ==
    \/ ByteLen(c) < ByteLen(d)
    \/ ByteLen(c) = ByteLen(d) /\ StrLess(c, d)

\* C4: what the writer writes is, in order, taken from the input sorted by
\* code length ascending, then code ascending, entries of one code in their
\* input order.
C4_SortedStable ==
    wr.pc \in {"pairs", "roots"} =>
        /\ \E p \in Perms(Len(wr.entries)) :
              /\ wr.sorted = [i \in 1..Len(wr.entries) |-> wr.entries[p[i]]]
              /\ \A i, j \in 1..Len(wr.entries) :
                    i < j =>
                      /\ ~CodeBefore(wr.entries[p[j]].code, wr.entries[p[i]].code)
                      /\ wr.entries[p[i]].code = wr.entries[p[j]].code
                            => p[i] < p[j]
        /\ IsSubseq(wr.out,
                    IF wr.pc = "roots" THEN RootLinesOf(wr.sorted)
                    ELSE CodeWordLines(wr.sorted))
        /\ wr.pc = "roots" => Len(wr.out) = Len(wr.entries)

\* Three entries, two of one code with different words and a shorter code
\* given last, were written.
C4_Witness ==
    /\ wr.pc \in {"pairs", "roots"}
    /\ Len(wr.entries) = 3
    /\ wr.entries[1].code = wr.entries[2].code
    /\ wr.entries[1].word # wr.entries[2].word
    /\ ByteLen(wr.entries[3].code) < ByteLen(wr.entries[1].code)

\* The code and the word of a line of a quick or pop file.
LineCode(line) == SubSeq(line, 1, IndexOf(line, "\t") - 1)
LineWord(line) == DropN(line, IndexOf(line, "\t"))

\* C5: writeCodeWordPairs writes one line for every code of the input and no
\* other, and the word on the line is that of the earliest input entry with
\* the code.
C5_FirstPerCode ==
    wr.pc = "pairs" =>
        /\ {LineCode(wr.out[i]) : i \in 1..Len(wr.out)}
              = {wr.entries[i].code : i \in 1..Len(wr.entries)}
        /\ \A i, j \in 1..Len(wr.out) :
              LineCode(wr.out[i]) = LineCode(wr.out[j]) => i = j
        /\ \A i \in 1..Len(wr.out) :
              \E k \in 1..Len(wr.entries) :
                 /\ wr.entries[k].code = LineCode(wr.out[i])
                 /\ wr.entries[k].word = LineWord(wr.out[i])
                 /\ \A m \in 1..(k - 1) :
                       wr.entries[m].code # wr.entries[k].code

\* The input (ab,x), (ab,y), (b,x) gave two lines.
C5_Witness ==
    /\ wr.pc = "pairs"
    /\ Len(wr.entries) = 3
    /\ wr.entries[1].code = <<"a", "b">>
    /\ wr.entries[2].code = <<"a", "b">>
    /\ wr.entries[1].word # wr.entries[2].word
    /\ wr.entries[3].code = <<"b">>
    /\ Len(wr.out) = 2

\* C6: without the unique option every kept entry is written, so that lines
\* of one file may share a code.
C6_AllWrittenUnlessUnique ==
    (wr.pc = "pairs" /\ ~wr.unique) => Len(wr.out) = Len(wr.entries)

----------------------------------------------------------------------------
(* Root-dictionary parser: the loop of export (main.go) and of exportRoot *)

MaxRootLines == 2

\* strings.Fields: the maximal runs of characters that are not white space.
RECURSIVE FieldsFrom(_, _, _)
FieldsFrom(s, cur, acc) ==
    IF s = <<>> THEN (IF cur = <<>> THEN acc ELSE Append(acc, cur))
    ELSE IF Head(s) \in Spaces
         THEN FieldsFrom(Tail(s), <<>>,
                         IF cur = <<>> THEN acc ELSE Append(acc, cur))
    ELSE FieldsFrom(Tail(s), Append(cur, Head(s)), acc)

Fields(s) == FieldsFrom(s, <<>>, <<>>)

LM == <<"/", "l", "m">>

\* strings.TrimPrefix(lastField, "/lm")
TrimPrefixLM(lastField) ==
    IF HasPrefix(lastField, LM) THEN DropN(lastField, Len(LM)) ELSE lastField

\* The number of leading characters of s that fit in n bytes.
RECURSIVE CharsWithin(_, _)
CharsWithin(s, n) ==
    IF s = <<>> \/ Utf8Len(Head(s)) > n THEN 0
    ELSE 1 + CharsWithin(Tail(s), n - Utf8Len(Head(s)))

\* lastField[3:], for a field of at least 3 bytes: the bytes from the fourth
\* on.  A character the cut goes through leaves its last bytes behind.
SliceFrom3(lastField) ==
    LET k == CharsWithin(lastField, 3)
    IN  IF ByteLen(SubSeq(lastField, 1, k)) = 3 THEN DropN(lastField, k)
        ELSE <<"<cont>">> \o DropN(lastField, k + 1)

\* keyCode := key + code
KeyCodeSwapped(key, code) == code \o key

KeyCode(key, code) == key \o code

\* The entries one line gives, in order: one for every character of the
\* fourth field, under the key of the last field put before the code of the
\* second.  The key is cut from the last field by strings.TrimPrefix in the
\* first version ("trim") and by lastField[3:] in the later ones ("slice").
RootKey(lastField, version) ==
    IF version = "trim" THEN TrimPrefixLM(lastField) ELSE SliceFrom3(lastField)

RootEntries(line, version) ==
    LET fields == Fields(line)
    IN  IF ~HasPrefix(line, <<"+">>) \/ Len(fields) < 4 THEN <<>>
        ELSE LET code == fields[2]
                 words == fields[4]
                 key == RootKey(fields[Len(fields)], version)
             IN  [k \in 1..Len(words) |->
                    [word |-> <<words[k]>>, keyCode |-> KeyCode(key, code)]]

\* lastField[3:] on a field of fewer than 3 bytes: the slice bounds are out
\* of range and the program panics.
SlicePanics(line) ==
    /\ HasPrefix(line, <<"+">>)
    /\ Len(Fields(line)) >= 4
    /\ ByteLen(Fields(line)[Len(Fields(line))]) < 3

\* The entries of lines 1..n of the file, each with the number of its line.
RECURSIVE Emitted(_, _, _)
Emitted(file, n, version) ==
    IF n = 0 THEN <<>>
    ELSE Emitted(file, n - 1, version)
            \o [k \in 1..Len(RootEntries(file[n], version)) |->
                  [line |-> n,
                   word |-> RootEntries(file[n], version)[k].word,
                   keyCode |-> RootEntries(file[n], version)[k].keyCode]]

\* The key codes of the map in the order they are written: by length, then
\* byte order.
RECURSIVE SortedKeyCodes(_)
SortedKeyCodes(S) ==
    IF S = {} THEN <<>>
    ELSE LET m == CHOOSE x \in S :
                    \A y \in S \ {x} :
                        \/ ByteLen(x) < ByteLen(y)
                        \/ ByteLen(x) = ByteLen(y) /\ StrLess(x, y)
         IN  <<m>> \o SortedKeyCodes(S \ {m})

\* The entries appended under one key code, in order.
RECURSIVE OfKeyCode(_, _)
OfKeyCode(emitted, keyCode) ==
    IF emitted = <<>> THEN <<>>
    ELSE IF Head(emitted).keyCode = keyCode
         THEN <<Head(emitted)>> \o OfKeyCode(Tail(emitted), keyCode)
    ELSE OfKeyCode(Tail(emitted), keyCode)

RECURSIVE Flatten(_)
Flatten(seqs) == IF seqs = <<>> THEN <<>> ELSE Head(seqs) \o Flatten(Tail(seqs))

\* The lines written from the map: key code by key code, the words of one
\* key code in the order they were appended.
MapLines(emitted) ==
    LET keys == SortedKeyCodes({emitted[i].keyCode : i \in 1..Len(emitted)})
    IN  Flatten([j \in 1..Len(keys) |->
                   LET es == OfKeyCode(emitted, keys[j])
                   IN  [k \in 1..Len(es) |->
                          es[k].word \o <<"\t">> \o es[k].keyCode]])

\* The first version (main.go): every entry is written as soon as it is
\* read, the key being the last field without its "/lm" prefix.
ExportRootTrimPrefix ==
    /\ par.pc = "roots"
    /\ LET emitted == Emitted(par.file, Len(par.file), "trim")
       IN  par' = [par EXCEPT
                     !.pc = "done",
                     !.read = Len(par.file),
                     !.emitted = emitted,
                     !.out = [i \in 1..Len(emitted) |->
                                emitted[i].word \o <<"\t">> \o emitted[i].keyCode]]
    /\ UNCHANGED <<zip, ver, wr, gen, run>>

\* The later versions (exportRoot): the entries are gathered in a map and
\* written sorted once the file is read, the key being lastField[3:].  A
\* last field of fewer than 3 bytes panics and nothing is written.
ExportRootSlice ==
    /\ par.pc = "roots"
    /\ IF \E n \in 1..Len(par.file) : SlicePanics(par.file[n])
       THEN LET n == CHOOSE n \in 1..Len(par.file) :
                        /\ SlicePanics(par.file[n])
                        /\ \A m \in 1..(n - 1) : ~SlicePanics(par.file[m])
            IN  par' = [par EXCEPT
                          !.pc = "panic",
                          !.read = n - 1,
                          !.emitted = Emitted(par.file, n - 1, "slice")]
       ELSE LET emitted == Emitted(par.file, Len(par.file), "slice")
            IN  par' = [par EXCEPT !.pc = "done",
                                   !.read = Len(par.file),
                                   !.emitted = emitted,
                                   !.out = MapLines(emitted)]
    /\ UNCHANGED <<zip, ver, wr, gen, run>>

\* The fields of the lines of a root dictionary of the model.
RootCodes == { <<"a">>, <<"b", "a">> }
RootTexts == { <<"<571f>">>, <<"<571f>", "<597d>">> }
RootLasts == { <<"/", "l", "m", "k">>, <<"/", "l", "m">>,
               <<"k", "k", "k", "k">>, <<"l", "m">> }

RootFieldLists ==
    {<< <<"+">>, c, <<"x">>, t, l >> : c \in RootCodes, t \in RootTexts,
                                         l \in RootLasts}
      \cup {<< <<"+">>, <<"a">>, <<"x">>, <<"<571f>", "<597d>">>, <<"y">>, l >> :
               l \in RootLasts}
      \cup { << <<"+">>, <<"a">>, <<"x">>, <<"/", "l", "m", "k">> >>,
             << <<"+">>, <<"a">>, <<"x">>, <<"<571f>">> >>,
             << <<"+">>, <<"a">>, <<"x">> >>,
             << <<"+">> >>,
             << <<"#">>, <<"a">>, <<"x">>, <<"<571f>">>, <<"/", "l", "m", "k">> >>,
             << <<"+", "a">>, <<"b">>, <<"x">>, <<"<571f>">>,
                <<"/", "l", "m", "k">> >> }

RootLines ==
    {JoinWith(fs, " ") : fs \in RootFieldLists}
      \cup { <<>>,
             <<" ", "+", " ", "a", " ", "x", " ", "<571f>", " ", "/", "l", "m", "k">>,
             <<"+", "\t", "a", " ", " ", "x", "\t", "<571f>", "<597d>", " ",
               "/", "l", "m", "k", " ">> }

InitRoot ==
    /\ par \in {[pc |-> "roots", file |-> f, read |-> 0, emitted |-> <<>>,
                 out |-> <<>>] :
                    f \in SeqsUpTo(RootLines, MaxRootLines)}
    /\ zip = Idle
    /\ ver = Idle
    /\ wr = Idle
    /\ gen = Idle
    /\ run = Idle

NextRoot == ExportRootTrimPrefix \/ ExportRootSlice

SpecRoot == InitRoot /\ [][NextRoot]_vars

\* A line of the form "+ <code> x <text> ... /lm<key>": at least four
\* fields, the first the "+" the line starts with, the last beginning "/lm".
IsRootLine(line) ==
    /\ line # <<>> /\ Head(line) = "+"
    /\ Len(Fields(line)) >= 4
    /\ Fields(line)[1] = <<"+">>
    /\ HasPrefix(Fields(line)[Len(Fields(line))], LM)

RECURSIVE OfLine(_, _)
OfLine(emitted, n) ==
    IF emitted = <<>> THEN <<>>
    ELSE IF Head(emitted).line = n
         THEN <<Head(emitted)>> \o OfLine(Tail(emitted), n)
    ELSE OfLine(Tail(emitted), n)

EmittedOfLine(n) == OfLine(par.emitted, n)

\* C7: a line "+ <code> x <text> ... /lm<key>" that was read gives one entry
\* for every character of <text>, in order, each under the key <key><code>; a
\* line that does not begin with "+" or has fewer than 4 fields gives none.
C7_RootLineEntries ==
    par.pc \in {"done", "panic"} =>
        \A n \in 1..par.read :
            LET line == par.file[n]
                f == Fields(line)
            IN  /\ IsRootLine(line) =>
                      /\ Len(EmittedOfLine(n)) = RuneLen(f[4])
                      /\ \A k \in 1..Len(EmittedOfLine(n)) :
                            /\ EmittedOfLine(n)[k].word = <<f[4][k]>>
                            /\ EmittedOfLine(n)[k].keyCode =
                                  DropN(f[Len(f)], 3) \o f[2]
                /\ (line = <<>> \/ Head(line) # "+" \/ Len(f) < 4) =>
                      EmittedOfLine(n) = <<>>

\* A file whose second line is "+ ba x <two characters> /lmk" was read and
\* gave two entries under the key "kba".
C7_Witness ==
    /\ par.pc = "done"
    /\ par.read = 2
    /\ IsRootLine(par.file[2])
    /\ RuneLen(Fields(par.file[2])[4]) = 2
    /\ Len(EmittedOfLine(2)) = 2
    /\ EmittedOfLine(2)[1].keyCode = <<"k", "b", "a">>

\* C21: the root parser aborts on no line: whatever the lines of the file,
\* it reads every one of them, skipping a line or taking its entries, and
\* ends normally.
C21_NoLineAborts ==
    par.pc \in {"done", "panic"} =>
        /\ par.pc = "done"
        /\ par.read = Len(par.file)

----------------------------------------------------------------------------
(* Quick-word and pop-word parsers: exportQuickWordsFromFile and            *)
(* exportPopWordsFromFile                                                   *)

MaxQuickLines == 2

\* The rune that `for _, r := range s` yields for a character: a byte that
\* is no character decodes to U+FFFD.
RuneOf(c) == IF c = "<cont>" THEN 65533 ELSE CodePoint(c)

isEnglishLettersOnly(s) ==
    \A i \in 1..Len(s) :
        \/ RuneOf(s[i]) >= 97 /\ RuneOf(s[i]) <= 122
        \/ RuneOf(s[i]) >= 65 /\ RuneOf(s[i]) <= 90

\* Looks at the first rune only.
isAllASCIIFirstRune(s) == s = <<>> \/ RuneOf(s[1]) <= 127

isAllASCII(s) == \A i \in 1..Len(s) : RuneOf(s[i]) <= 127

\* The test of the loop body that sends an entry to words, not to chars.
IsWordByBytes(word) == ByteLen(word) > 1

IsWord(word) == RuneLen(word) > 1

\* One pass of the loop body: the entry the line gives, if it gives one.
QuickEntry(line) ==
    LET fields == Fields(line)
    IN  IF Len(fields) # 2 THEN <<>>
        ELSE LET word == fields[1]
                 code == fields[2]
             IN  IF ~isEnglishLettersOnly(code) \/ isAllASCII(word) THEN <<>>
                 ELSE <<DictEntry(code, word)>>

\* The entries the loop appends, in file order.
RECURSIVE QuickKept(_)
QuickKept(file) ==
    IF file = <<>> THEN <<>>
    ELSE QuickEntry(Head(file)) \o QuickKept(Tail(file))

\* The slice words at the end of the loop.
RECURSIVE QuickWords(_)
QuickWords(kept) ==
    IF kept = <<>> THEN <<>>
    ELSE IF IsWord(Head(kept).word)
         THEN <<Head(kept)>> \o QuickWords(Tail(kept))
    ELSE QuickWords(Tail(kept))

\* The slice chars at the end of the loop.
RECURSIVE QuickChars(_)
QuickChars(kept) ==
    IF kept = <<>> THEN <<>>
    ELSE IF IsWord(Head(kept).word) THEN QuickChars(Tail(kept))
    ELSE <<Head(kept)>> \o QuickChars(Tail(kept))

\* The state a run of either function leaves: the two slices as the loop
\* built them, and the two files writeCodeWordPairs made of them.
QuickRun(kind) ==
    LET kept == QuickKept(par.file)
    IN  [par EXCEPT
           !.pc = "done",
           !.kind = kind,
           !.words = QuickWords(kept),
           !.chars = QuickChars(kept),
           !.wordsOut = CodeWordLines(SkipSeenCodes(sortByCode(QuickWords(kept)))),
           !.charsOut = CodeWordLines(SkipSeenCodes(sortByCode(QuickChars(kept))))]

ExportQuickWordsFromFile ==
    /\ par.pc = "lines"
    /\ par' = QuickRun("quick")
    /\ UNCHANGED <<zip, ver, wr, gen, run>>

ExportPopWordsFromFile ==
    /\ par.pc = "lines"
    /\ par' = QuickRun("pop")
    /\ UNCHANGED <<zip, ver, wr, gen, run>>

\* The lines of a quick or pop dictionary of the model.
QuickLines ==
    { <<>>,
      <<"h", "e", "l", "l", "o", " ", "A", "B", "C">>,
      <<"<4f60>", "<597d>", " ", "n", "i">>,
      <<"<597d>", " ", "n", "i">>,
      <<"<597d>", "\t", "h">>,
      <<" ", "<571f>", " ", " ", "t", " ">>,
      <<"a", "<571f>", " ", "a", "t">>,
      <<"<571f>", "a", " ", "t", "a">>,
      <<"<571f>", " ", "t", "1">>,
      <<"<571f>", " ", "<65e5>">>,
      <<"<571f>", " ", "t", " ", "x">>,
      <<"<571f>">>,
      <<"<e9>", " ", "e">>,
      <<"#", " ", "<571f>">> }

InitQuick ==
    /\ par \in {[pc |-> "lines", file |-> f, kind |-> "", words |-> <<>>,
                 chars |-> <<>>, wordsOut |-> <<>>, charsOut |-> <<>>] :
                    f \in SeqsUpTo(QuickLines, MaxQuickLines)}
    /\ zip = Idle
    /\ ver = Idle
    /\ wr = Idle
    /\ gen = Idle
    /\ run = Idle

NextQuick == ExportQuickWordsFromFile \/ ExportPopWordsFromFile

SpecQuick == InitQuick /\ [][NextQuick]_vars

AsciiLetters == {"A", "B", "C", "Z", "a", "b", "c", "d", "e", "h", "i", "k",
                 "l", "m", "n", "o", "s", "t", "x", "y", "z"}

NonAsciiChars == {"<e9>", "<4f60>", "<571f>", "<597d>", "<65e5>"}

\* The parts of a line between its runs of blanks and tabs.
RECURSIVE BlankSeparated(_, _)
BlankSeparated(line, cur) ==
    IF line = <<>> THEN (IF cur = <<>> THEN <<>> ELSE <<cur>>)
    ELSE IF Head(line) = " " \/ Head(line) = "\t"
         THEN (IF cur = <<>> THEN <<>> ELSE <<cur>>) \o BlankSeparated(Tail(line), <<>>)
    ELSE BlankSeparated(Tail(line), Append(cur, Head(line)))

\* The condition of C8 on a line.
ShouldKeep(line) ==
    LET t == BlankSeparated(line, <<>>)
    IN  /\ Len(t) = 2
        /\ Range(t[2]) \subseteq AsciiLetters
        /\ Range(t[1]) \cap NonAsciiChars # {}

\* How many times an entry occurs in a sequence.
Count(seq, e) == Cardinality({i \in 1..Len(seq) : seq[i] = e})

\* How many lines of the file should be kept and give the entry e.
CountLines(file, e) ==
    Cardinality({n \in 1..Len(file) :
                    /\ ShouldKeep(file[n])
                    /\ e = [code |-> BlankSeparated(file[n], <<>>)[2],
                            word |-> BlankSeparated(file[n], <<>>)[1]]})

\* C8: a line is kept if and only if it has exactly 2 fields (text, code),
\* the code is made of ASCII letters only and the text has a character outside
\* ASCII: the entries of the two slices are exactly those of such lines, each
\* as often as such lines give it, and every entry comes from such a line.
C8_KeptIffFilter ==
    par.pc = "done" =>
        LET both == par.words \o par.chars
        IN  /\ \A i \in 1..Len(both) :
                  Count(both, both[i]) = CountLines(par.file, both[i])
            /\ \A n \in 1..Len(par.file) :
                  ShouldKeep(par.file[n]) =>
                      \E i \in 1..Len(both) :
                          /\ both[i].word = BlankSeparated(par.file[n], <<>>)[1]
                          /\ both[i].code = BlankSeparated(par.file[n], <<>>)[2]
            /\ Len(both) =
                  Cardinality({n \in 1..Len(par.file) : ShouldKeep(par.file[n])})

\* "hello ABC" was dropped and the two-character text with code "ni" kept.
C8_Witness ==
    /\ par.pc = "done"
    /\ par.file = << <<"h", "e", "l", "l", "o", " ", "A", "B", "C">>,
                     <<"<4f60>", "<597d>", " ", "n", "i">> >>
    /\ par.words = << DictEntry(<<"n", "i">>, <<"<4f60>", "<597d>">>) >>
    /\ par.chars = <<>>

\* C9: the words slice holds exactly the kept entries whose text has more than
\* one character and the chars slice exactly those whose text has one, each in
\* file order; no entry is in both and none is lost.
C9_WordsCharsPartition ==
    par.pc = "done" =>
        LET kept == QuickKept(par.file)
            Multi(e) == Len(e.word) > 1
            Single(e) == Len(e.word) = 1
        IN  /\ par.words = SelectSeq(kept, Multi)
            /\ par.chars = SelectSeq(kept, Single)
            /\ Len(par.words) + Len(par.chars) = Len(kept)
            /\ \A i \in 1..Len(par.words) : \A j \in 1..Len(par.chars) :
                  par.words[i] # par.chars[j]

\* A file with a one-character and a two-character text gave one entry to
\* each slice and one line to each output.
C9_Witness ==
    /\ par.pc = "done"
    /\ Len(par.words) = 1
    /\ Len(par.chars) = 1
    /\ Len(par.words[1].word) = 2
    /\ ByteLen(par.chars[1].word) = 3
    /\ Len(par.wordsOut) = 1
    /\ Len(par.charsOut) = 1

----------------------------------------------------------------------------
(* Schema resolver: readSchemaName *)

MaxConfigLines == 3

\* strings.TrimSpace
RECURSIVE TrimLeft(_)
TrimLeft(s) ==
    IF s # <<>> /\ Head(s) \in Spaces THEN TrimLeft(Tail(s)) ELSE s

RECURSIVE TrimRight(_)
TrimRight(s) ==
    IF s # <<>> /\ s[Len(s)] \in Spaces THEN TrimRight(SubSeq(s, 1, Len(s) - 1))
    ELSE s

TrimSpace(s) == TrimRight(TrimLeft(s))

\* strings.Index(s, sub), counted in characters from 1; 0 when sub is absent.
Index(s, sub) ==
    IF \E i \in 1..(Len(s) - Len(sub) + 1) : SubSeq(s, i, i + Len(sub) - 1) = sub
    THEN CHOOSE i \in 1..(Len(s) - Len(sub) + 1) :
            /\ SubSeq(s, i, i + Len(sub) - 1) = sub
            /\ \A j \in 1..(i - 1) : SubSeq(s, j, j + Len(sub) - 1) # sub
    ELSE 0

SchemaMarker == <<"-", " ", "s", "c", "h", "e", "m", "a", ":">>

\* One pass of the scanner loop: the name the line adds to schemaNames, if
\* it adds one.
SchemaNameOfCommentToo(text) ==
    LET line == TrimSpace(text)
        idx == Index(line, SchemaMarker)
    IN  IF idx = 0 THEN <<>>
        ELSE LET fields == Fields(DropN(line, idx - 1 + Len(SchemaMarker)))
             IN  IF Len(fields) > 0 THEN <<fields[1]>> ELSE <<>>

SchemaNameOf(text) ==
    LET line == TrimSpace(text)
    IN  IF line = <<>> \/ HasPrefix(line, <<"#">>) THEN <<>>
        ELSE LET idx == Index(line, SchemaMarker)
             IN  IF idx = 0 THEN <<>>
                 ELSE LET schemaPart ==
                              TrimSpace(DropN(line, idx - 1 + Len(SchemaMarker)))
                          fields == Fields(schemaPart)
                      IN  IF Len(fields) > 0 THEN <<fields[1]>> ELSE <<>>

\* schemaNames at the end of the loop.
RECURSIVE SchemaNames(_)
SchemaNames(file) ==
    IF file = <<>> THEN <<>>
    ELSE SchemaNameOf(Head(file)) \o SchemaNames(Tail(file))

\* The comparison that replaces shortest by a later name.
Shorter(name, shortest) == ByteLen(name) < ByteLen(shortest)

\* The loop over schemaNames[1:] that starts from schemaNames[0].
RECURSIVE ShortestFrom(_, _)
ShortestFrom(names, shortest) ==
    IF names = <<>> THEN shortest
    ELSE ShortestFrom(Tail(names),
                      IF Shorter(Head(names), shortest) THEN Head(names)
                      ELSE shortest)

\* readSchemaName on the file of p: the error for no candidate, else the
\* candidates and the name returned.
readSchemaName(p) ==
    LET schemaNames == SchemaNames(p.file)
    IN  IF Len(schemaNames) = 0
        THEN [p EXCEPT !.pc = "error"]
        ELSE [p EXCEPT
                !.pc = "done",
                !.names = schemaNames,
                !.name = ShortestFrom(Tail(schemaNames), Head(schemaNames))]

ReadSchemaName ==
    /\ par.pc = "config"
    /\ par' = readSchemaName(par)
    /\ UNCHANGED <<zip, ver, wr, gen, run>>

\* The lines of a default.custom.yaml of the model.
ConfigNames == { <<"a", "b">>, <<"b", "a">>, <<"<65e5>">>, <<"a", "b", "c">>,
                 <<"<e9>">> }

ConfigLines ==
    {SchemaMarker \o <<" ">> \o n : n \in ConfigNames}
      \cup { <<" ", " ">> \o SchemaMarker \o <<" ", "a", "b", "c", "d", " ", "#",
                                                " ", "x">>,
             <<"#", " ">> \o SchemaMarker \o <<" ", "a">>,
             SchemaMarker,
             <<"x", ":">>,
             <<>> }

InitSchema ==
    /\ par \in {[pc |-> "config", file |-> f, names |-> <<>>, name |-> <<>>] :
                    f \in SeqsUpTo(ConfigLines, MaxConfigLines)}
    /\ zip = Idle
    /\ ver = Idle
    /\ wr = Idle
    /\ gen = Idle
    /\ run = Idle

NextSchema == ReadSchemaName

SpecSchema == InitSchema /\ [][NextSchema]_vars

\* The first place of a name in the list of candidates.
FirstIndex(names, name) ==
    CHOOSE i \in 1..Len(names) :
        names[i] = name /\ \A j \in 1..(i - 1) : names[j] # name

\* C10: the schema name returned is a candidate with the fewest characters of
\* all candidates, and the earliest of the candidates that short.
C10_ShortestInCharacters ==
    par.pc = "done" =>
        /\ par.name \in Range(par.names)
        /\ \A i \in 1..Len(par.names) : Len(par.name) <= Len(par.names[i])
        /\ \A i \in 1..Len(par.names) :
              Len(par.names[i]) = Len(par.name) =>
                  FirstIndex(par.names, par.name) <= i

\* What the loop does return: the earliest candidate with the fewest bytes.
ShortestInBytes ==
    par.pc = "done" =>
        /\ par.name \in Range(par.names)
        /\ \A i \in 1..Len(par.names) : ByteLen(par.name) <= ByteLen(par.names[i])
        /\ \A i \in 1..Len(par.names) :
              ByteLen(par.names[i]) = ByteLen(par.name) =>
                  FirstIndex(par.names, par.name) <= i

----------------------------------------------------------------------------
(* Items of a template: generateItemsFromMeta and the document written by   *)
(* exportTemplateFromFile                                                   *)

MaxRules == 2

\* A file of the target directory read for a category: "<category>.txt", or
\* "<category>_<suffix>.txt".
CategoryFile(categoryItem, suffix) == [category |-> categoryItem, suffix |-> suffix]

\* filePatterns: the file with the suffix of the template first, when the
\* template has one, then the bare file.
FilePatterns(categoryItem, methodNameSuffix) ==
    IF methodNameSuffix # ""
    THEN <<CategoryFile(categoryItem, methodNameSuffix), CategoryFile(categoryItem, "")>>
    ELSE <<CategoryFile(categoryItem, "")>>

\* The files of filePatterns that are read: the loop goes on to the next
\* pattern when os.Stat does not find the file, and also after reading one.
RECURSIVE FilesRead(_, _)
FilesRead(patterns, dir) ==
    IF patterns = <<>> THEN <<>>
    ELSE (IF Head(patterns) \in DOMAIN dir THEN <<Head(patterns)>> ELSE <<>>)
            \o FilesRead(Tail(patterns), dir)

\* The pair of a line: nothing unless the line has exactly 2 fields; the word
\* comes first in roots files and the code first in the others.
PairOfLine(line, categoryItem) ==
    LET fields == Fields(line)
    IN  IF Len(fields) # 2 THEN <<>>
        ELSE IF categoryItem = "roots"
             THEN <<[code |-> fields[2], word |-> fields[1]]>>
        ELSE <<[code |-> fields[1], word |-> fields[2]]>>

\* The pairs of the lines of a file, in order.
RECURSIVE PairsOfLines(_, _)
PairsOfLines(lines, categoryItem) ==
    IF lines = <<>> THEN <<>>
    ELSE PairOfLine(Head(lines), categoryItem)
            \o PairsOfLines(Tail(lines), categoryItem)

\* The pairs read for the categories of a rule: category after category,
\* and for a category the files read, file after file.
RECURSIVE PairsOfCategories(_, _, _)
PairsOfCategories(categories, dir, methodNameSuffix) ==
    IF categories = <<>> THEN <<>>
    ELSE LET files == FilesRead(FilePatterns(Head(categories), methodNameSuffix),
                                dir)
         IN  Flatten([f \in 1..Len(files) |->
                         PairsOfLines(dir[files[f]], files[f].category)])
                \o PairsOfCategories(Tail(categories), dir, methodNameSuffix)

\* The four tests of the loop body on the code of a pair.  The tests on the
\* code with AppendSuffix already applied:
PassesAfterAppend(meta, code) ==
    LET c == code \o meta.append
    IN  /\ Len(meta.prefix) > 0 =>
              \E k \in 1..Len(meta.prefix) : HasPrefix(c, meta.prefix[k])
        /\ Len(meta.suffix) > 0 =>
              \E k \in 1..Len(meta.suffix) : HasSuffix(c, meta.suffix[k])
        /\ ~(meta.minLength > 0 /\ ByteLen(c) < meta.minLength)
        /\ ~(meta.maxLength > 0 /\ ByteLen(c) > meta.maxLength)

Passes(meta, code) ==
    /\ Len(meta.prefix) > 0 =>
          \E k \in 1..Len(meta.prefix) : HasPrefix(code, meta.prefix[k])
    /\ Len(meta.suffix) > 0 =>
          \E k \in 1..Len(meta.suffix) : HasSuffix(code, meta.suffix[k])
    /\ ~(meta.minLength > 0 /\ ByteLen(code) < meta.minLength)
    /\ ~(meta.maxLength > 0 /\ ByteLen(code) > meta.maxLength)

\* itemMap[code] = append(itemMap[code], word)
MapPrepend(itemMap, code, word) ==
    IF code \in DOMAIN itemMap
    THEN [itemMap EXCEPT ![code] = <<word>> \o @]
    ELSE itemMap @@ (code :> <<word>>)

MapAppend(itemMap, code, word) ==
    IF code \in DOMAIN itemMap
    THEN [itemMap EXCEPT ![code] = Append(@, word)]
    ELSE itemMap @@ (code :> <<word>>)

\* The loop body over the pairs read: a pair that passes is stored under its
\* code with AppendSuffix added.
RECURSIVE ItemMapFrom(_, _, _)
ItemMapFrom(pairs, meta, itemMap) ==
    IF pairs = <<>> THEN itemMap
    ELSE ItemMapFrom(Tail(pairs), meta,
                     IF Passes(meta, Head(pairs).code)
                     THEN MapAppend(itemMap, Head(pairs).code \o meta.append,
                                    Head(pairs).word)
                     ELSE itemMap)

\* generateItemsFromMeta: one map for every rule, in the order of the rules.
generateItemsReversed(itemsMeta, dir, methodNameSuffix) ==
    [i \in 1..Len(itemsMeta) |->
        LET meta == itemsMeta[Len(itemsMeta) + 1 - i]
        IN  ItemMapFrom(PairsOfCategories(meta.category, dir, methodNameSuffix),
                        meta, <<>>)]

generateItemsFromMeta(itemsMeta, dir, methodNameSuffix) ==
    [i \in 1..Len(itemsMeta) |->
        LET meta == itemsMeta[i]
        IN  ItemMapFrom(PairsOfCategories(meta.category, dir, methodNameSuffix),
                        meta, <<>>)]

\* json.MarshalIndent(tmpl): the fields of Template under their JSON names.
\* The version is that of the archive name, or the template's when the
\* archive name gives none.
MarshalTemplate(tmplMeta, items, configVersion) ==
    [name |-> tmplMeta.name,
     version |-> IF configVersion = <<>> THEN tmplMeta.version
                 ELSE configVersion,
     config_version |-> tmplMeta.config_version,
     fonts |-> tmplMeta.fonts,
     key_bindings |-> tmplMeta.key_bindings,
     items |-> items,
     tabs |-> tmplMeta.tabs,
     help |-> tmplMeta.help]

\* The part of exportTemplateFromFile after the config version: the items
\* are generated from items_meta and the document is written.
GenerateItemsFromMeta ==
    /\ gen.pc = "meta"
    /\ LET items == generateItemsFromMeta(gen.tmplMeta.items_meta, gen.dir,
                                          gen.methodNameSuffix)
       IN  gen' = [gen EXCEPT !.pc = "written",
                              !.items = items,
                              !.doc = MarshalTemplate(gen.tmplMeta, items,
                                                      gen.configVersion)]
    /\ UNCHANGED <<zip, ver, wr, par, run>>

\* A rule of items_meta.
TemplateItemsMeta(category, prefix, suffix, minLength, maxLength, append) ==
    [category |-> category, prefix |-> prefix, suffix |-> suffix,
     minLength |-> minLength, maxLength |-> maxLength, append |-> append]

\* The rules of the model: one that filters nothing for each list of
\* categories, then rules that differ from it in one filter, and one that
\* uses them all.
GenRules ==
    {TemplateItemsMeta(c, <<>>, <<>>, 0, 0, <<>>) :
        c \in { <<"quick_words">>, <<"roots">>, <<"roots", "quick_words">>,
                <<"pop_words">> }}
      \cup {TemplateItemsMeta(<<"quick_words">>, p, <<>>, 0, 0, <<>>) :
               p \in { << <<"a">> >>, << <<"b">>, <<"a", "b">> >> }}
      \cup {TemplateItemsMeta(<<"quick_words">>, <<>>, << <<"b">> >>, 0, 0, a) :
               a \in { <<>>, <<"b">> }}
      \cup {TemplateItemsMeta(<<"quick_words">>, <<>>, <<>>, b[1], b[2], b[3]) :
               b \in { <<2, 0, <<>> >>, <<0, 1, <<>> >>, <<0, -1, <<>> >>,
                       <<-1, 0, <<>> >>, <<2, 2, <<"x">> >> }}
      \cup {TemplateItemsMeta(<<"roots", "quick_words">>, << <<"a">> >>,
                              << <<"b">> >>, 2, 2, <<"x">>)}

\* The text files the writers left in the target directory.
GenFiles ==
    (CategoryFile("quick_words", "") :>
        << <<"a", "\t", "<571f>">>, <<"a", "b", "\t", "<597d>">>,
           <<"a", "b", "\t", "<571f>">>, <<"b", "\t", "<65e5>">>,
           <<"a", "b">>, <<"a", " ", "b", " ", "c">> >>)
    @@ (CategoryFile("quick_words", "s") :>
        << <<"a", "b", "\t", "<65e5>">>, <<"b", "a", "\t", "<571f>">> >>)
    @@ (CategoryFile("roots", "") :>
        << <<"<571f>", "\t", "a", "b">>, <<"<597d>", "\t", "b">> >>)

GenDirs == {[f \in F |-> GenFiles[f]] : F \in SUBSET DOMAIN GenFiles}

InitGen ==
    /\ gen \in {[pc |-> "meta",
                 tmplMeta |-> [name |-> <<"n">>, version |-> <<"1">>,
                               config_version |-> FmtDate(Days[1]) \o <<"-", "1">>,
                               fonts |-> <<>>, key_bindings |-> <<>>,
                               items_meta |-> rules, tabs |-> <<>>,
                               help |-> <<>>],
                 dir |-> d, methodNameSuffix |-> sfx, configVersion |-> v,
                 items |-> <<>>, doc |-> <<>>] :
                    rules \in SeqsUpTo(GenRules, MaxRules), d \in GenDirs,
                    sfx \in {"", "s"}, v \in {<<>>, <<"2">>}}
    /\ zip = Idle
    /\ ver = Idle
    /\ wr = Idle
    /\ par = Idle
    /\ run = Idle

NextGen == GenerateItemsFromMeta

SpecGen == InitGen /\ [][NextGen]_vars

\* The pairs a file gives: those of its lines of exactly two fields, in the
\* order of the lines, the code being the second field in a roots file and
\* the first in the others.
TwoFields(line) == Len(Fields(line)) = 2

PairsIn(file, dir) ==
    LET lines == SelectSeq(dir[file], TwoFields)
    IN  [k \in 1..Len(lines) |->
            IF file.category = "roots"
            THEN [code |-> Fields(lines[k])[2], word |-> Fields(lines[k])[1]]
            ELSE [code |-> Fields(lines[k])[1], word |-> Fields(lines[k])[2]]]

\* The pairs read for rule i: category after category in the order of the
\* rule, and for a category file after file in the order they are read.
PairsReadFor(i) ==
    LET cats == gen.tmplMeta.items_meta[i].category
    IN  Flatten([c \in 1..Len(cats) |->
            LET files == FilesRead(FilePatterns(cats[c], gen.methodNameSuffix),
                                   gen.dir)
            IN  Flatten([f \in 1..Len(files) |-> PairsIn(files[f], gen.dir)])])

\* The four conditions of C15 on a code.
ClaimedToPass(meta, code) ==
    /\ meta.prefix = <<>> \/ \E p \in Range(meta.prefix) : HasPrefix(code, p)
    /\ meta.suffix = <<>> \/ \E x \in Range(meta.suffix) : HasSuffix(code, x)
    /\ meta.minLength = 0 \/ ByteLen(code) >= meta.minLength
    /\ meta.maxLength = 0 \/ ByteLen(code) <= meta.maxLength

\* The same with a max_length below 0 taken as no bound, like 0.
ClaimedToPassNoBoundBelowZero(meta, code) ==
    /\ meta.prefix = <<>> \/ \E p \in Range(meta.prefix) : HasPrefix(code, p)
    /\ meta.suffix = <<>> \/ \E x \in Range(meta.suffix) : HasSuffix(code, x)
    /\ meta.minLength = 0 \/ ByteLen(code) >= meta.minLength
    /\ meta.maxLength <= 0 \/ ByteLen(code) <= meta.maxLength

\* C15: a pair read for a rule is in the rule's mapping if and only if its
\* code, before anything is appended, has a listed prefix (or none is listed),
\* a listed suffix (or none is listed), at least min_length bytes (or
\* min_length is 0) and at most max_length bytes (or max_length is 0); and it
\* is stored under its code followed by append_suffix.
C15_FiltersAsClaimed ==
    gen.pc = "written" =>
        \A i \in 1..Len(gen.items) :
            LET meta == gen.tmplMeta.items_meta[i]
                pairs == PairsReadFor(i)
            IN  /\ \A k \in 1..Len(pairs) :
                      ClaimedToPass(meta, pairs[k].code) <=>
                          /\ pairs[k].code \o meta.append \in DOMAIN gen.items[i]
                          /\ pairs[k].word \in
                                Range(gen.items[i][pairs[k].code \o meta.append])
                /\ \A key \in DOMAIN gen.items[i] :
                      \E k \in 1..Len(pairs) :
                          /\ ClaimedToPass(meta, pairs[k].code)
                          /\ key = pairs[k].code \o meta.append

\* C15 as amended: the same, a max_length of 0 or less setting no upper bound.
C15_FiltersNoBoundBelowZero ==
    gen.pc = "written" =>
        \A i \in 1..Len(gen.items) :
            LET meta == gen.tmplMeta.items_meta[i]
                pairs == PairsReadFor(i)
            IN  /\ \A k \in 1..Len(pairs) :
                      ClaimedToPassNoBoundBelowZero(meta, pairs[k].code) <=>
                          /\ pairs[k].code \o meta.append \in DOMAIN gen.items[i]
                          /\ pairs[k].word \in
                                Range(gen.items[i][pairs[k].code \o meta.append])
                /\ \A key \in DOMAIN gen.items[i] :
                      \E k \in 1..Len(pairs) :
                          /\ ClaimedToPassNoBoundBelowZero(meta, pairs[k].code)
                          /\ key = pairs[k].code \o meta.append

\* The rule with suffix filter "b" and append_suffix "b" kept "ab" and "b",
\* stored under "abb" and "bb", and dropped "a", which ends in "b" only once
\* the suffix is appended.
C15_Witness ==
    /\ gen.pc = "written"
    /\ Len(gen.items) = 1
    /\ gen.tmplMeta.items_meta[1].suffix = << <<"b">> >>
    /\ gen.tmplMeta.items_meta[1].append = <<"b">>
    /\ DOMAIN gen.items[1] = { <<"a", "b", "b">>, <<"b", "b">> }

\* The one file C16 has a category read: the file with the suffix when a
\* suffix is known and that file exists, else the bare file if it exists.
FileOfCategory(categoryItem) ==
    IF gen.methodNameSuffix # ""
         /\ CategoryFile(categoryItem, gen.methodNameSuffix) \in DOMAIN gen.dir
    THEN <<CategoryFile(categoryItem, gen.methodNameSuffix)>>
    ELSE IF CategoryFile(categoryItem, "") \in DOMAIN gen.dir
         THEN <<CategoryFile(categoryItem, "")>>
    ELSE <<>>

\* C16: the entries of every category of a rule come from one file, the one
\* with the suffix if it exists and else the bare one; the mapping of the rule
\* is the one those files give.
C16_OneFilePerCategory ==
    gen.pc = "written" =>
        \A i \in 1..Len(gen.items) :
            LET meta == gen.tmplMeta.items_meta[i]
                pairs == Flatten([c \in 1..Len(meta.category) |->
                            LET files == FileOfCategory(meta.category[c])
                            IN  Flatten([f \in 1..Len(files) |->
                                           PairsIn(files[f], gen.dir)])])
            IN  gen.items[i] = ItemMapFrom(pairs, meta, <<>>)

\* C17: the texts under a key are the texts of the passing pairs with that
\* code, in the order the pairs were read; every passing pair has its key.
C17_TextsInReadOrder ==
    gen.pc = "written" =>
        \A i \in 1..Len(gen.items) :
            LET meta == gen.tmplMeta.items_meta[i]
                pairs == PairsReadFor(i)
                Passing(pr) == Passes(meta, pr.code)
                passing == SelectSeq(pairs, Passing)
            IN  /\ DOMAIN gen.items[i] =
                      {passing[k].code \o meta.append : k \in 1..Len(passing)}
                /\ \A key \in DOMAIN gen.items[i] :
                      LET OfKey(pr) == pr.code \o meta.append = key
                          mine == SelectSeq(passing, OfKey)
                      IN  gen.items[i][key] = [k \in 1..Len(mine) |-> mine[k].word]

\* The rule over roots and quick_words without filters stored three texts
\* under "ab": the one of roots.txt first, then the two of quick_words.txt in
\* the order of their lines.
C17_Witness ==
    /\ gen.pc = "written"
    /\ gen.methodNameSuffix = ""
    /\ Len(gen.items) = 1
    /\ gen.tmplMeta.items_meta[1].category = <<"roots", "quick_words">>
    /\ <<"a", "b">> \in DOMAIN gen.items[1]
    /\ gen.items[1][<<"a", "b">>] = << <<"<571f>">>, <<"<597d>">>, <<"<571f>">> >>

\* C18: the document has an items list with one mapping for every rule, the
\* i-th holding the keys of the pairs that pass the i-th rule (none when none
\* passes or no file exists), and no items_meta field.
C18_ItemsPerRule ==
    gen.pc = "written" =>
        /\ "items" \in DOMAIN gen.doc
        /\ "items_meta" \notin DOMAIN gen.doc
        /\ Len(gen.doc.items) = Len(gen.tmplMeta.items_meta)
        /\ \A i \in 1..Len(gen.doc.items) :
              LET meta == gen.tmplMeta.items_meta[i]
                  pairs == PairsReadFor(i)
              IN  DOMAIN gen.doc.items[i] =
                      {pairs[k].code \o meta.append :
                          k \in {j \in 1..Len(pairs) : Passes(meta, pairs[j].code)}}

\* A template of two rules, the first over pop_words, which has no file, the
\* second over quick_words: the first mapping is empty and the second is not.
C18_Witness ==
    /\ gen.pc = "written"
    /\ Len(gen.tmplMeta.items_meta) = 2
    /\ gen.tmplMeta.items_meta[1].category = <<"pop_words">>
    /\ gen.tmplMeta.items_meta[2].category = <<"quick_words">>
    /\ Len(gen.doc.items) = 2
    /\ DOMAIN gen.doc.items[1] = {}
    /\ DOMAIN gen.doc.items[2] # {}

----------------------------------------------------------------------------
(* Roots from a CSV file: readRootsFromCSV, exportRoot, and the text files  *)
(* read back by the renderer                                                *)

MaxCsvRows == 3

\* readRootsFromCSV: the first line is skipped; a later line is split at
\* every comma, and gives an entry when it has two columns or more and
\* neither the trimmed first column (the word) nor the trimmed and
\* lower-cased second column (the code) is empty.
RECURSIVE readRootsFromCSV(_, _)
readRootsFromCSV(lines, isFirstLine) ==
    IF lines = <<>> THEN <<>>
    ELSE IF isFirstLine THEN readRootsFromCSV(Tail(lines), FALSE)
    ELSE LET fields == Split(Head(lines), ",")
             word == TrimSpace(fields[1])
             code == ToLower(TrimSpace(fields[2]))
         IN  (IF Len(fields) < 2 THEN <<>>
              ELSE IF code # <<>> /\ word # <<>> THEN <<DictEntry(code, word)>>
              ELSE <<>>)
                \o readRootsFromCSV(Tail(lines), FALSE)

\* exportRoot(config): the entries of the CSV file, sorted, one line of
\* roots.txt for each.  With the first line read like the others:
ExportRootKeepHeader ==
    /\ par.pc = "csv"
    /\ LET entries == readRootsFromCSV(par.file, FALSE)
       IN  par' = [par EXCEPT !.pc = "written",
                              !.entries = entries,
                              !.out = RootLinesOf(sortByCode(entries))]
    /\ UNCHANGED <<zip, ver, wr, gen, run>>

ExportRoot ==
    /\ par.pc = "csv"
    /\ LET entries == readRootsFromCSV(par.file, TRUE)
       IN  par' = [par EXCEPT !.pc = "written",
                              !.entries = entries,
                              !.out = RootLinesOf(sortByCode(entries))]
    /\ UNCHANGED <<zip, ver, wr, gen, run>>

\* exportTemplateFromFile after the exports: the items are generated from the
\* text files the root stage and the quick stage left in the target
\* directory.
ExportTemplateAfterExports ==
    /\ par.pc = "written"
    /\ wr.pc = "pairs"
    /\ gen.pc = "meta"
    /\ LET dir == (CategoryFile("roots", "") :> par.out)
                    @@ (CategoryFile("quick_words", "") :> wr.out)
           items == generateItemsFromMeta(gen.tmplMeta.items_meta, dir,
                                          gen.methodNameSuffix)
       IN  gen' = [gen EXCEPT !.pc = "written",
                              !.dir = dir,
                              !.items = items,
                              !.doc = MarshalTemplate(gen.tmplMeta, items,
                                                      gen.configVersion)]
    /\ UNCHANGED <<zip, ver, wr, par, run>>

\* The CSV files of the model: lines with one, two and three columns, blanks
\* around a column, an upper-case code, an empty word, an empty code, and a
\* word and a code with a blank inside.  The quick words are entries as the
\* quick parser keeps them.  The template has one rule for roots and one for
\* quick_words, neither with a filter.
InitCsv ==
    /\ par \in {[pc |-> "csv", file |-> f, entries |-> <<>>, out |-> <<>>] :
                    f \in SeqsUpTo({ <<"h", ",", "c">>,
                                     <<"<571f>", ",", "a", "b">>,
                                     <<" ", "<597d>", " ", ",", " ", "A", "b", " ",
                                       ",", "x">>,
                                     <<"<65e5>", ",", "b">>,
                                     <<"<571f>">>,
                                     <<",", "a">>,
                                     <<"<65e5>", ",", " ">>,
                                     <<"<571f>", " ", "<597d>", ",", "b">>,
                                     <<"<65e5>", ",", "a", " ", "b">>,
                                     <<>> }, MaxCsvRows)}
    /\ wr \in {[pc |-> "start", unique |-> FALSE, entries |-> es,
                sorted |-> <<>>, out |-> <<>>] :
                    es \in { <<>>,
                             <<DictEntry(<<"a", "b">>, <<"<597d>", "<597d>">>),
                               DictEntry(<<"a">>, <<"<571f>", "<65e5>">>)>>,
                             <<DictEntry(<<"b">>, <<"<571f>", "<65e5>">>),
                               DictEntry(<<"b">>, <<"<597d>", "<597d>">>)>> }}
    /\ gen = [pc |-> "meta",
              tmplMeta |-> [name |-> <<"n">>, version |-> <<"1">>,
                            config_version |-> <<>>,
                            fonts |-> <<>>, key_bindings |-> <<>>,
                            items_meta |->
                                <<TemplateItemsMeta(<<"roots">>, <<>>, <<>>,
                                                    0, 0, <<>>),
                                  TemplateItemsMeta(<<"quick_words">>, <<>>,
                                                    <<>>, 0, 0, <<>>)>>,
                            tabs |-> <<>>, help |-> <<>>],
              dir |-> <<>>, methodNameSuffix |-> "", configVersion |-> <<>>,
              items |-> <<>>, doc |-> <<>>]
    /\ zip = Idle
    /\ ver = Idle
    /\ run = Idle

NextCsv == ExportRoot \/ WriteCodeWordPairs \/ ExportTemplateAfterExports

SpecCsv == InitCsv /\ [][NextCsv]_vars

\* The columns of a CSV row as the claim reads them: the text before the
\* first comma, and the text between the first comma and the second one or
\* the end of the row.
Column0(row) ==
    IF IndexOf(row, ",") = 0 THEN row ELSE SubSeq(row, 1, IndexOf(row, ",") - 1)

Column1(row) ==
    LET rest == DropN(row, IndexOf(row, ","))
    IN  IF IndexOf(rest, ",") = 0 THEN rest
        ELSE SubSeq(rest, 1, IndexOf(rest, ",") - 1)

YieldsEntry(row) ==
    /\ "," \in Range(row)
    /\ TrimSpace(Column0(row)) # <<>>
    /\ TrimSpace(Column1(row)) # <<>>

\* C25: the first row is skipped whatever it holds; every later row with two
\* columns or more whose trimmed text and code are both not empty gives the
\* entry (lower-cased trimmed column 1, trimmed column 0), the other rows
\* give nothing, and the entries are in the order of their rows.
C25_CsvEntries ==
    par.pc = "written" =>
        LET rows == SelectSeq(Tail(par.file), YieldsEntry)
        IN  /\ par.file = <<>> => par.entries = <<>>
            /\ par.file # <<>> =>
                  par.entries =
                      [k \in 1..Len(rows) |->
                          [code |-> ToLower(TrimSpace(Column1(rows[k]))),
                           word |-> TrimSpace(Column0(rows[k]))]]

\* A file whose first row is a data row, followed by a row with blanks, an
\* upper-case code and a third column, and by a row of one column: the one
\* entry is that of the second row.
C25_Witness ==
    /\ par.pc = "written"
    /\ Len(par.file) = 3
    /\ YieldsEntry(par.file[1])
    /\ par.file[2] = <<" ", "<597d>", " ", ",", " ", "A", "b", " ", ",", "x">>
    /\ ~YieldsEntry(par.file[3])
    /\ par.entries = <<DictEntry(<<"a", "b">>, <<"<597d>">>)>>

\* C24: every entry written to roots.txt and every entry written to
\* quick_words.txt is read back by a rule for its category without filters:
\* its text is in the list stored under its code.
C24_RoundTrip ==
    gen.pc = "written" =>
        /\ \A k \in 1..Len(par.entries) :
              /\ par.entries[k].code \in DOMAIN gen.items[1]
              /\ par.entries[k].word \in Range(gen.items[1][par.entries[k].code])
        /\ LET written == SkipSeenCodes(wr.sorted)
           IN  \A k \in 1..Len(written) :
                  /\ written[k].code \in DOMAIN gen.items[2]
                  /\ written[k].word \in Range(gen.items[2][written[k].code])

----------------------------------------------------------------------------
(* The templates of one run: exportTemplate and the configuration store of  *)
(* gkconfig                                                                  *)

\* gkconfig.LoadFiles(templatePath) on the default configuration of the
\* package: the keys of the file are merged over the data loaded before, so
\* a key the file does not have keeps the value of an earlier file.
LoadFiles(data, file) == file @@ data

\* exportTemplate(config): the main template when os.Stat finds it, then the
\* templates with a suffix in the order the map of findSuffixedTemplates is
\* ranged over, which Go leaves open.  Each one is loaded, decoded into a
\* new TemplateMeta (a key the data does not have decodes to ""), given its
\* new config version, and its document is written.
ExportTemplate ==
    /\ gen.pc = "templates"
    /\ \E order \in {o \in [1..Cardinality(DOMAIN gen.files \ {""}) ->
                              DOMAIN gen.files \ {""}] :
                        \A i, j \in DOMAIN o : o[i] = o[j] => i = j} :
          LET visited == (IF "" \in DOMAIN gen.files THEN <<"">> ELSE <<>>)
                            \o order
              data[i \in 0..Len(visited)] ==
                  IF i = 0 THEN <<>>
                  ELSE LoadFiles(data[i - 1], gen.files[visited[i]])
              field(d, key) == IF key \in DOMAIN d THEN d[key] ELSE <<>>
          IN  gen' = [gen EXCEPT
                        !.pc = "rendered",
                        !.visited = visited,
                        !.docs =
                            [i \in 1..Len(visited) |->
                                [name |-> field(data[i], "name"),
                                 help |-> field(data[i], "help"),
                                 config_version |->
                                     updateConfigVersion(
                                         field(data[i], "config_version"),
                                         Days[1])]]]
    /\ UNCHANGED <<zip, ver, wr, par, run>>

\* The template files of the working directory: the main template ("") and
\* the templates with the suffixes s and t, each there or not, and each with
\* any of the keys name, help and config_version; the values of a key differ
\* from one template to the other.
InitTemplates ==
    /\ gen \in {[pc |-> "templates",
                 files |-> [s \in DOMAIN keys |->
                              [k \in keys[s] |->
                                  IF k # "config_version" THEN <<k, s>>
                                  ELSE IF s = ""
                                       THEN FmtDate(Days[1]) \o <<"-", "3">>
                                  ELSE IF s = "s"
                                       THEN FmtDate(Days[1]) \o <<"-", "9">>
                                  ELSE FmtDate(Days[2]) \o <<"-", "1">>]],
                 visited |-> <<>>, docs |-> <<>>] :
                    keys \in UNION {[S -> SUBSET {"name", "help",
                                                  "config_version"}] :
                                       S \in SUBSET {"", "s", "t"}}}
    /\ zip = Idle
    /\ ver = Idle
    /\ wr = Idle
    /\ par = Idle
    /\ run = Idle

NextTemplates == ExportTemplate

SpecTemplates == InitTemplates /\ [][NextTemplates]_vars

\* The document of a template read alone: its own keys, "" for a key it does
\* not have, and the config version computed from its own token.
DocAlone(file) ==
    [name |-> IF "name" \in DOMAIN file THEN file["name"] ELSE <<>>,
     help |-> IF "help" \in DOMAIN file THEN file["help"] ELSE <<>>,
     config_version |->
        updateConfigVersion(IF "config_version" \in DOMAIN file
                            THEN file["config_version"] ELSE <<>>, Days[1])]

\* C30: every document of a run is the one its template gives alone:
\* nothing of a template visited before it is in it, and so the documents
\* do not depend on the order of the visit.
C30_TemplatesIndependent ==
    gen.pc = "rendered" =>
        \A i \in 1..Len(gen.visited) :
            gen.docs[i] = DocAlone(gen.files[gen.visited[i]])

----------------------------------------------------------------------------
(* The top-level run: export *)

\* The result of os.Stat on a dictionary of the archive, of os.ReadDir for
\* the dictionaries with a suffix, and of the file operations of a stage are
\* the environment's: every action takes them from the outcomes the
\* operating system can give.
FileOutcomes == {"ok", "open", "read", "createWords", "createChars"}

\* The errno of a failed file operation.  Its text is part of the error
\* message: "no such file or directory" for ENOENT.  Opening or creating a
\* file fails with ENOENT when a directory of its path, or the target of a
\* symbolic link at its path, is missing.
Errnos == {"ENOENT", "EACCES", "EIO"}

ErrnosOf(outcome) ==
    IF outcome = "ok" THEN {""}
    ELSE IF outcome = "read" THEN {"EIO"}
    ELSE {"ENOENT", "EACCES"}

\* A file of the target directory: the stage that writes it, its class and
\* the suffix in its name.
Artifact(stage, class, suffix) ==
    [stage |-> stage, class |-> class, suffix |-> suffix]

\* exportQuickWordsFromFile / exportPopWordsFromFile on one dictionary, as far
\* as files go: the words file is created before the chars file, and neither
\* when the dictionary cannot be opened or read.
FilesOfOne(stage, suffix, outcome) ==
    IF outcome \in {"open", "read", "createWords"} THEN {}
    ELSE IF outcome = "createChars" THEN {Artifact(stage, "words", suffix)}
    ELSE {Artifact(stage, "words", suffix), Artifact(stage, "chars", suffix)}

\* exportQuickWords / exportPopWords: the main dictionary when os.Stat finds
\* it, then every dictionary with a suffix; the first failure is returned.
ExportWords(stage, main, suffixed, o1, o2) ==
    LET first == IF main THEN o1 ELSE "ok"
        second == IF first = "ok" /\ suffixed THEN o2 ELSE "ok"
    IN  [err |-> IF first # "ok" THEN first ELSE second,
         files |-> (IF main THEN FilesOfOne(stage, "", first) ELSE {})
                     \cup (IF first = "ok" /\ suffixed
                           THEN FilesOfOne(stage, "s", second) ELSE {})]

\* strings.Contains(err.Error(), "no such file or directory") ||
\* strings.Contains(err.Error(), "cannot find the file")
IsNotFoundText(errno) == errno = "ENOENT"

\* A return of export: the deferred os.RemoveAll(tempDir) runs when the
\* scratch directory was made.
ReturnOnSuccessOnly(r, err) ==
    [r EXCEPT !.pc = "returned",
              !.err = err,
              !.temp = IF r.temp = "exists" /\ err = "nil" THEN "removed"
                       ELSE r.temp]

Return(r, err) ==
    [r EXCEPT !.pc = "returned",
              !.err = err,
              !.temp = IF r.temp = "exists" THEN "removed" ELSE r.temp]

\* extractVersionFromFilename: the base name without ".zip" is split at
\* every "_" and the second part is returned, "" when there is none.
extractVersionFromFilename(filename) ==
    LET elems == Split(filename, "/")
        base == elems[Len(elems)]
        baseName == IF HasSuffix(base, <<".", "z", "i", "p">>)
                    THEN SubSeq(base, 1, Len(base) - 4) ELSE base
        parts == Split(baseName, "_")
    IN  IF Len(parts) >= 2 THEN parts[2] ELSE <<>>

\* The check of the source name and os.MkdirTemp.
ExportStart ==
    /\ run.pc = "start"
    /\ \E made \in BOOLEAN :
          run' = IF ~run.isZip THEN Return(run, "source")
                 ELSE IF ~made THEN Return(run, "mkdtemp")
                 ELSE [run EXCEPT !.pc = "extract", !.temp = "exists"]
    /\ UNCHANGED <<zip, ver, wr, par, gen>>

\* extractZipToDir(src, tempDir)
ExportExtract ==
    /\ run.pc = "extract"
    /\ \E ok \in BOOLEAN :
          run' = IF ok THEN [run EXCEPT !.pc = "schema",
                                        !.stages = Append(@, "extract")]
                 ELSE Return([run EXCEPT !.stages = Append(@, "extract")],
                             "extract")
    /\ UNCHANGED <<zip, ver, wr, par, gen>>

\* readSchemaName(customPath), and the ExportConfig made from its result and
\* from the name of the archive
ExportReadSchema ==
    /\ run.pc = "schema"
    /\ par.pc = "config"
    /\ par' = readSchemaName(par)
    /\ LET r == [run EXCEPT !.stages = Append(@, "schema")]
       IN  run' = IF par'.pc = "error" THEN Return(r, "schema")
                  ELSE [r EXCEPT !.pc = "target", !.methodName = par'.name,
                                      !.version =
                                          extractVersionFromFilename(run.src)]
    /\ UNCHANGED <<zip, ver, wr, gen>>

\* os.Stat(tar) and os.MkdirAll(tar, 0755)
ExportTargetDir ==
    /\ run.pc = "target"
    /\ \E made \in BOOLEAN :
          run' = IF run.targetExists THEN [run EXCEPT !.pc = "root"]
                 ELSE IF made THEN [run EXCEPT !.pc = "root",
                                               !.targetExists = TRUE,
                                               !.targetMade = TRUE]
                 ELSE Return(run, "target")
    /\ UNCHANGED <<zip, ver, wr, par, gen>>

\* exportRoot(config): roots.txt is created before the CSV file is read.
ExportRootStage ==
    /\ run.pc = "root"
    /\ \E outcome \in {"ok", "create", "csv"} :
          LET r == [run EXCEPT
                      !.stages = Append(@, "root"),
                      !.artifacts =
                          IF outcome = "create" THEN @
                          ELSE @ \cup {Artifact("roots", "", "")}]
          IN  run' = IF outcome = "ok" THEN [r EXCEPT !.pc = "quick"]
                     ELSE Return(r, "root")
    /\ UNCHANGED <<zip, ver, wr, par, gen>>

\* exportQuickWords(config).  A run that renders as soon as the quick stage
\* has returned:
ExportQuickStageThenTemplate ==
    /\ run.pc = "quick"
    /\ \E main, suffixed \in BOOLEAN, o1, o2 \in FileOutcomes :
          LET res == ExportWords("quick", main, suffixed, o1, o2)
              r == [run EXCEPT !.stages = Append(@, "quick"),
                               !.quickMain = IF main THEN "found" ELSE "absent",
                               !.artifacts = @ \cup res.files]
          IN  run' = IF res.err = "ok" THEN [r EXCEPT !.pc = "template"]
                     ELSE Return(r, "quick")
    /\ UNCHANGED <<zip, ver, wr, par, gen>>

ExportQuickStage ==
    /\ run.pc = "quick"
    /\ \E main, suffixed \in BOOLEAN, o1, o2 \in FileOutcomes :
          LET res == ExportWords("quick", main, suffixed, o1, o2)
              r == [run EXCEPT !.stages = Append(@, "quick"),
                               !.quickMain = IF main THEN "found" ELSE "absent",
                               !.artifacts = @ \cup res.files]
          IN  run' = IF res.err = "ok" THEN [r EXCEPT !.pc = "pop"]
                     ELSE Return(r, "quick")
    /\ UNCHANGED <<zip, ver, wr, par, gen>>

\* exportPopWords(config), and the test of its error by export
ExportPopStage ==
    /\ run.pc = "pop"
    /\ \E main, suffixed \in BOOLEAN, o1, o2 \in FileOutcomes,
          errno \in Errnos \cup {""} :
          LET res == ExportWords("pop", main, suffixed, o1, o2)
              r == [run EXCEPT !.stages = Append(@, "pop"),
                               !.popMain = IF main THEN "found" ELSE "absent",
                               !.popErr = IF res.err = "ok" THEN "nil"
                                          ELSE res.err,
                               !.popErrno = errno,
                               !.artifacts = @ \cup res.files]
          IN  /\ errno \in ErrnosOf(res.err)
              /\ run' = IF res.err = "ok" \/ IsNotFoundText(errno)
                        THEN [r EXCEPT !.pc = "template"]
                        ELSE Return(r, "pop")
    /\ UNCHANGED <<zip, ver, wr, par, gen>>

\* exportTemplate(config) and the return of nil
ExportTemplateStage ==
    /\ run.pc = "template"
    /\ \E found \in BOOLEAN, ok \in BOOLEAN :
          LET r == [run EXCEPT
                      !.stages = Append(@, "template"),
                      !.artifacts = IF found /\ ok
                                    THEN @ \cup {Artifact("template", "", "")}
                                    ELSE @]
          IN  run' = IF found /\ ~ok THEN Return(r, "template")
                     ELSE Return(r, "nil")
    /\ UNCHANGED <<zip, ver, wr, par, gen>>

\* The lines of the default.custom.yaml of the archive of a run.
ExportConfigLines ==
    { SchemaMarker \o <<" ", "a", "b">>,
      <<"#", " ">> \o SchemaMarker \o <<" ", "a">>,
      <<" ">> \o SchemaMarker \o <<" ">>,
      <<"x", ":">>,
      <<>> }

\* The source names of the model: <method>_<version>.zip,
\* <method>_<suffix>_<version>.zip, a name without "_", a name under a
\* directory, an upper-case extension, and a name that is no archive.
InitExport ==
    /\ run \in {[pc |-> "start", src |-> src,
                 isZip |-> HasSuffix(ToLower(src), <<".", "z", "i", "p">>),
                 temp |-> "none",
                 targetExists |-> t, targetMade |-> FALSE, methodName |-> <<>>,
                 version |-> <<>>,
                 artifacts |-> {}, printed |-> <<>>, stages |-> <<>>,
                 quickMain |-> "", popMain |-> "", popErr |-> "",
                 popErrno |-> "", err |-> ""] :
                    src \in { <<"a", "_", "1", ".", "z", "i", "p">>,
                              <<"a", "_", "s", "_", "1", ".", "z", "i", "p">>,
                              <<"a", ".", "z", "i", "p">>,
                              <<"d", "_", "x", "/", "a", "_", "1", ".", "z", "i", "p">>,
                              <<"a", "_", "1", ".", "Z", "I", "P">>,
                              <<"a", "_", "1">> },
                    t \in BOOLEAN}
    /\ par \in {[pc |-> "config", file |-> f, names |-> <<>>, name |-> <<>>] :
                    f \in SeqsUpTo(ExportConfigLines, MaxConfigLines)}
    /\ zip = Idle
    /\ ver = Idle
    /\ wr = Idle
    /\ gen = Idle

NextExport ==
    \/ ExportStart
    \/ ExportExtract
    \/ ExportReadSchema
    \/ ExportTargetDir
    \/ ExportRootStage
    \/ ExportQuickStage
    \/ ExportPopStage
    \/ ExportTemplateStage

SpecExport == InitExport /\ [][NextExport]_vars

\* A line that gives a candidate: not empty and not a comment once trimmed,
\* and holding the marker with something other than blanks after it.
GivesCandidate(text) ==
    LET t == TrimSpace(text)
    IN  /\ t # <<>>
        /\ t[1] # "#"
        /\ \E i \in 1..Len(t) :
              /\ i + Len(SchemaMarker) - 1 <= Len(t)
              /\ SubSeq(t, i, i + Len(SchemaMarker) - 1) = SchemaMarker
              /\ \E j \in (i + Len(SchemaMarker))..Len(t) : t[j] \notin {" ", "\t"}

C12_MissingQuickIsFatal ==
    run.quickMain = "absent" =>
        /\ run.pc = "returned"
        /\ run.err = "quick"
        /\ "pop" \notin Range(run.stages)
        /\ "template" \notin Range(run.stages)

\* C13: when the pop dictionary is absent and nothing else fails, the run
\* goes on to the template stage, returns nil, and a warning was printed.
C13_MissingPopWarns ==
    (run.popMain = "absent" /\ run.popErr = "nil") =>
        /\ run.pc \in {"template", "returned"}
        /\ run.err # "pop"
        /\ run.pc = "returned" =>
              /\ "template" \in Range(run.stages)
              /\ run.err = "nil" => Len(run.printed) > 0

\* C14: a failure of the pop stage other than the absence of the pop
\* dictionary (creating pop_words.txt or pop_chars.txt, reading the
\* dictionary) makes export return the error of the pop stage.
C14_OtherPopErrorsFatal ==
    run.popErr \in {"createWords", "createChars", "read"} =>
        /\ run.pc = "returned"
        /\ run.err = "pop"
        /\ "template" \notin Range(run.stages)

\* C22: a dictionary kind is read from one file, the dictionary with the
\* suffix when there is one and the bare dictionary otherwise: the files a
\* stage wrote all come from the same dictionary of its kind.
C22_OneDictionaryPerKind ==
    \A a, b \in run.artifacts :
        (a.stage = b.stage /\ a.stage \in {"quick", "pop"}) => a.suffix = b.suffix

C27_FailFast ==
    /\ \E n \in 0..6 :
          run.stages = SubSeq(<<"extract", "schema", "root", "quick", "pop",
                                "template">>, 1, n)
    /\ run.err \in {"extract", "schema", "root", "quick", "pop"} =>
          "template" \notin Range(run.stages)
    /\ run.popErr \in {"read", "createWords", "createChars"} =>
          "template" \notin Range(run.stages)

\* C26: the version of the ExportConfig of a run is the version component of
\* the source name: for <method>_<version>.zip and for
\* <method>_<suffix>_<version>.zip the part after the last "_", and "" for
\* a name without "_".
C26_VersionOfBothFormats ==
    (par.pc = "done" /\ HasSuffix(run.src, <<".", "z", "i", "p">>)) =>
        LET elems == Split(run.src, "/")
            base == elems[Len(elems)]
            parts == Split(SubSeq(base, 1, Len(base) - 4), "_")
        IN  run.version = IF Len(parts) = 1 THEN <<>> ELSE parts[Len(parts)]

\* C20: whenever export has returned after making the scratch directory, the
\* scratch directory is gone.
C20_ScratchRemoved ==
    run.pc = "returned" => run.temp # "exists"

\* export returned the error of the pop stage, and the scratch directory it
\* had made is removed.
C20_Witness ==
    /\ run.pc = "returned"
    /\ run.err = "pop"
    /\ run.temp = "removed"

====
